---------------------------- MODULE Spec2Model ----------------------------
(***************************************************************************)
(* Model of the dnslink resolver: the TXT lookup cache (dnsResolveTxt) and *)
(* Resolver.resolve.  Strings that the regular expressions inspect are     *)
(* sequences of character codes (ASCII); domain names and lookup keys are  *)
(* TLA+ strings.                                                           *)
(***************************************************************************)
EXTENDS Integers, Sequences, FiniteSets, TLC

(***************************************************************************)
(* Character classes of the regular expressions in resolver.js.            *)
(***************************************************************************)
Digit == 48..57
Lower == 97..122
Upper == 65..90
Slash == 47
Equals == 61
Hyphen == 45
Underscore == 95
\* JavaScript's "." matches every character except the line terminators
\* (\n, \r; U+2028 and U+2029 are outside the modelled alphabet).
LineTerminators == {10, 13}
Dot(c) == c \notin LineTerminators
\* [a-z0-9]
Base32Class == Lower \cup Digit
\* [a-zA-Z0-9-_]
Base64Class == Lower \cup Upper \cup Digit \cup {Hyphen, Underscore}
\* [a-zA-Z0-9]
AlnumClass == Lower \cup Upper \cup Digit

\* an optional value (a JavaScript value that may be undefined)
None == [has |-> FALSE, val |-> <<>>]
Some(v) == [has |-> TRUE, val |-> v]

\* the printable ASCII characters, from the space (32) to the tilde (126); the
\* grave accent (96), which no string of this notation holds, is written "?"
Printable ==
    <<" ", "!", "\"", "#", "$", "%", "&", "'", "(", ")", "*", "+", ",", "-", ".", "/",
      "0", "1", "2", "3", "4", "5", "6", "7", "8", "9", ":", ";", "<", "=", ">", "?",
      "@", "A", "B", "C", "D", "E", "F", "G", "H", "I", "J", "K", "L", "M", "N", "O",
      "P", "Q", "R", "S", "T", "U", "V", "W", "X", "Y", "Z", "[", "\\", "]", "^", "_",
      "?", "a", "b", "c", "d", "e", "f", "g", "h", "i", "j", "k", "l", "m", "n", "o",
      "p", "q", "r", "s", "t", "u", "v", "w", "x", "y", "z", "{", "|", "}", "~">>

\* a sequence of character codes interpolated into a template string
RECURSIVE Text(_)
Text(s) ==
    IF s = <<>> THEN ""
    ELSE (IF Head(s) \in 32..126 THEN Printable[Head(s) - 31] ELSE "?") \o Text(Tail(s))

\* "dnslink=/skynet-ns/"
dnslinkPrefix == <<100,110,115,108,105,110,107,61,47,115,107,121,110,101,116,45,110,115,47>>
\* "skynet-sponsor-key="
sponsorPrefix == <<115,107,121,110,101,116,45,115,112,111,110,115,111,114,45,107,101,121,61>>
Base32Len == 55
Base64Len == 46

StartsWith(s, p) == Len(s) >= Len(p) /\ \A i \in 1..Len(p) : s[i] = p[i]
AllIn(s, from, to, class) == \A i \in from..to : s[i] \in class

\* dnslinkRegExp for every namespace: ^dnslink=/.+$
dnslinkRegExpAnyNamespace(record) ==
    /\ StartsWith(record, SubSeq(dnslinkPrefix, 1, 9))
    /\ Len(record) > 9
    /\ \A i \in 10..Len(record) : Dot(record[i])

\* ^dnslink=/skynet-ns/.+$
dnslinkRegExp(record) ==
    /\ StartsWith(record, dnslinkPrefix)
    /\ Len(record) > Len(dnslinkPrefix)
    /\ \A i \in (Len(dnslinkPrefix) + 1)..Len(record) : Dot(record[i])

\* ^skynet-sponsor-key=[a-zA-Z0-9]+$
sponsorRegExp(record) ==
    /\ StartsWith(record, sponsorPrefix)
    /\ Len(record) > Len(sponsorPrefix)
    /\ AllIn(record, Len(sponsorPrefix) + 1, Len(record), AlnumClass)

\* [a-z0-9]{55}|[a-zA-Z0-9-_]{46} tried at position p of s (the first
\* alternative first): the length matched, 0 when neither alternative matches.
skylinkMatcher(s, p) ==
    IF Len(s) >= p + Base32Len - 1 /\ AllIn(s, p, p + Base32Len - 1, Base32Class)
    THEN Base32Len
    ELSE IF Len(s) >= p + Base64Len - 1 /\ AllIn(s, p, p + Base64Len - 1, Base64Class)
         THEN Base64Len
         ELSE 0

\* record.match(^dnslink=/skynet-ns/(skylinkMatcher)): capture group 1, or None
\* when there is no match (the expression has no end anchor).
dnslinkSkylinkRegExp(record) ==
    IF StartsWith(record, dnslinkPrefix)
       /\ skylinkMatcher(record, Len(dnslinkPrefix) + 1) > 0
    THEN Some(SubSeq(record, Len(dnslinkPrefix) + 1,
                     Len(dnslinkPrefix) + skylinkMatcher(record, Len(dnslinkPrefix) + 1)))
    ELSE None

\* the longest run of "." characters of s that starts at position p: its end
RECURSIVE DotRunEnd(_, _)
DotRunEnd(s, p) ==
    IF p <= Len(s) /\ Dot(s[p]) THEN DotRunEnd(s, p + 1) ELSE p - 1

\* uri.match(^/(?<skylink>skylinkMatcher)(?<path>/.*)?): the two named groups,
\* [matched |-> FALSE] when there is no match.
uriSkylinkRegExp(uri) ==
    IF Len(uri) >= 1 /\ uri[1] = Slash /\ skylinkMatcher(uri, 2) > 0
    THEN LET n == skylinkMatcher(uri, 2)
             q == n + 2
         IN  [matched |-> TRUE,
              skylink |-> SubSeq(uri, 2, n + 1),
              path |-> IF q <= Len(uri) /\ uri[q] = Slash
                       THEN Some(SubSeq(uri, q, DotRunEnd(uri, q + 1)))
                       ELSE None]
    ELSE [matched |-> FALSE, skylink |-> <<>>, path |-> None]

(***************************************************************************)
(* convertSkylinkToBase64 of skynet-js, as resolve calls it: base32-decode *)
(* (variant RFC4648-HEX, after toUpperCase) followed by base64-js          *)
(* fromByteArray made URL-safe and cut by its two trailing characters.     *)
(***************************************************************************)
\* index of a character in "0123456789ABCDEFGHIJKLMNOPQRSTUV" after
\* toUpperCase, -1 when it is not in the alphabet (readChar throws)
Base32Index(c) ==
    IF c \in Digit THEN c - 48
    ELSE IF c \in 97..118 THEN c - 87
    ELSE IF c \in 65..86 THEN c - 55
    ELSE -1

Pow2(n) == IF n = 0 THEN 1 ELSE IF n = 1 THEN 2 ELSE IF n = 2 THEN 4
           ELSE IF n = 3 THEN 8 ELSE IF n = 4 THEN 16 ELSE IF n = 5 THEN 32
           ELSE IF n = 6 THEN 64 ELSE 128

\* the decoding loop: 5 bits per character, a byte written whenever 8 bits
\* are available; bits left over at the end are dropped.  value keeps only
\* the bits not yet written (the code reads no others).
RECURSIVE base32Decode(_, _, _, _, _)
base32Decode(input, i, value, bits, output) ==
    IF i > Len(input) THEN output
    ELSE LET v == value * 32 + Base32Index(input[i])
             b == bits + 5
         IN  IF b >= 8
             THEN base32Decode(input, i + 1, v % Pow2(b - 8), b - 8,
                               Append(output, (v \div Pow2(b - 8)) % 256))
             ELSE base32Decode(input, i + 1, v, b, output)

\* the URL-safe base64 character of a 6-bit value ("+" -> "-", "/" -> "_")
Base64Char(n) ==
    IF n < 26 THEN 65 + n
    ELSE IF n < 52 THEN 97 + (n - 26)
    ELSE IF n < 62 THEN 48 + (n - 52)
    ELSE IF n = 62 THEN Hyphen
    ELSE Underscore

\* fromByteArray: 4 characters per 3 bytes, "=" padding for a last group of
\* one or two bytes
RECURSIVE fromByteArray(_, _)
fromByteArray(bytes, i) ==
    IF i > Len(bytes) THEN <<>>
    ELSE IF i + 2 <= Len(bytes)
    THEN LET n == bytes[i] * 65536 + bytes[i + 1] * 256 + bytes[i + 2]
         IN  <<Base64Char(n \div 262144), Base64Char((n \div 4096) % 64),
               Base64Char((n \div 64) % 64), Base64Char(n % 64)>>
             \o fromByteArray(bytes, i + 3)
    ELSE IF i + 1 = Len(bytes)
    THEN LET n == bytes[i] * 256 + bytes[i + 1]
         IN  <<Base64Char(n \div 1024), Base64Char((n \div 16) % 64),
               Base64Char((n * 4) % 64), Equals>>
    ELSE <<Base64Char(bytes[i] \div 4), Base64Char((bytes[i] * 16) % 64),
           Equals, Equals>>

\* the message of the error base32Decode throws at the first character, of
\* the skylink in upper case, that is no base32 digit
InvalidCharacter(skylink) ==
    LET i == CHOOSE i \in 1..Len(skylink) :
                 /\ Base32Index(skylink[i]) < 0
                 /\ \A j \in 1..(i - 1) : Base32Index(skylink[j]) >= 0
    IN  "Invalid character found: "
        \o Text(<<IF skylink[i] \in Lower THEN skylink[i] - 32 ELSE skylink[i]>>)

\* convertSkylinkToBase64 that keeps the two trailing characters of the
\* base64 text
convertSkylinkKeepsPadding(skylink) ==
    IF \E i \in 1..Len(skylink) : Base32Index(skylink[i]) < 0
    THEN None
    ELSE Some(fromByteArray(base32Decode(skylink, 1, 0, 0, <<>>), 1))

\* None when base32Decode throws
convertSkylinkToBase64(skylink) ==
    IF \E i \in 1..Len(skylink) : Base32Index(skylink[i]) < 0
    THEN None
    ELSE LET base64 == fromByteArray(base32Decode(skylink, 1, 0, 0, <<>>), 1)
         IN  Some(SubSeq(base64, 1, Len(base64) - 2))

(***************************************************************************)
(* Resolver.resolve after the lookup: lines 50-117 of resolver.js.         *)
(***************************************************************************)
\* Flat that takes the first fragment of every record group only
RECURSIVE FlatFirstFragment(_)
FlatFirstFragment(addresses) ==
    IF addresses = <<>> THEN <<>>
    ELSE (IF Head(addresses) = <<>> THEN <<>> ELSE <<Head(Head(addresses))>>)
         \o FlatFirstFragment(Tail(addresses))

\* addresses.flat()
RECURSIVE Flat(_)
Flat(addresses) ==
    IF addresses = <<>> THEN <<>> ELSE Head(addresses) \o Flat(Tail(addresses))

\* s.indexOf(c), counted from 0 as in JavaScript; -1 when c does not occur
RECURSIVE indexOf(_, _, _)
indexOf(s, c, i) ==
    IF i > Len(s) THEN -1 ELSE IF s[i] = c THEN i - 1 ELSE indexOf(s, c, i + 1)

\* a thrown error: its class and its message
Failure(kind, message) ==
    [kind |-> kind, message |-> message, skylink |-> None, sponsor |-> None,
     path |-> None]

hint == "valid example: dnslink=/skynet-ns/3ACpC9Umme41zlWUgMQh1fw0sNwgWwyfDDhRQ9Sppz9hjQ"

\* Respond with the sponsor cut at the "=" instead of after it
RespondWholeRecord(lookup, skylink, path, dnslinkSponsors) ==
    LET converted == IF skylink.has /\ Len(skylink.val) = Base32Len
                     THEN convertSkylinkToBase64(skylink.val)
                     ELSE skylink
    IN  IF skylink.has /\ ~converted.has
        THEN Failure("Error", InvalidCharacter(skylink.val))
        ELSE [kind |-> "ok", message |-> "",
              skylink |-> converted,
              sponsor |-> IF Len(dnslinkSponsors) = 1
                          THEN Some(SubSeq(dnslinkSponsors[1],
                                           indexOf(dnslinkSponsors[1], Equals, 1) + 1,
                                           Len(dnslinkSponsors[1])))
                          ELSE None,
              path |-> path]

\* the response object with the conversion of a 55-character skylink and the
\* sponsor key added (lines 101-117)
Respond(lookup, skylink, path, dnslinkSponsors) ==
    LET converted == IF skylink.has /\ Len(skylink.val) = Base32Len
                     THEN convertSkylinkToBase64(skylink.val)
                     ELSE skylink
    IN  IF skylink.has /\ ~converted.has
        THEN Failure("Error", InvalidCharacter(skylink.val))
        ELSE [kind |-> "ok", message |-> "",
              skylink |-> converted,
              sponsor |-> IF Len(dnslinkSponsors) = 1
                          THEN Some(SubSeq(dnslinkSponsors[1],
                                           indexOf(dnslinkSponsors[1], Equals, 1) + 2,
                                           Len(dnslinkSponsors[1])))
                          ELSE None,
              path |-> path]

\* a value in a template literal: the text of an absent one is "undefined"
template(value) == IF value.has THEN Text(value.val) ELSE "undefined"

\* Array.prototype.filter(Boolean) on strings: the empty string is dropped
filterBoolean(clauses) == SelectSeq(clauses, LAMBDA clause : clause # "")

\* Array.prototype.join
RECURSIVE join(_, _)
join(clauses, separator) ==
    IF Len(clauses) = 0 THEN ""
    ELSE IF Len(clauses) = 1 THEN clauses[1]
    ELSE clauses[1] \o separator \o join(Tail(clauses), separator)

\* the line resolve logs before it returns response (lines 111-115); a call
\* that throws has logged nothing
loggerInfo(domain, response) ==
    IF response.kind # "ok" THEN ""
    ELSE LET info == join(filterBoolean(<<"skylink: " \o template(response.skylink),
                                          "sponsor: " \o template(response.sponsor)>>),
                          " | ")
         IN  domain \o " => " \o info

NoMatch == [matched |-> FALSE, skylink |-> <<>>, path |-> None]

\* CheckRecords without the count of the skylink records
CheckRecordsSkipSkylinkCount(lookup, dnslinkSkylinks, dnslinkSponsors, matchSkylinkUri) ==
    IF Len(dnslinkSponsors) > 1
    THEN Failure("MultipleSponsorKeyRecordsError",
                 "Multiple TXT records with valid sponsor key found for "
                 \o lookup \o ", only one allowed")
    ELSE IF Len(dnslinkSkylinks) = 0 /\ Len(dnslinkSponsors) = 0
            /\ ~matchSkylinkUri.matched
    THEN Failure("NoSkynetDNSLinksFoundError",
                 "TXT records for " \o lookup
                 \o " found but none of them contained valid skynet dnslink - "
                 \o hint)
    ELSE Failure("ok", "")

\* CheckRecords without the count of the sponsor records
CheckRecordsSkipSponsorCount(lookup, dnslinkSkylinks, dnslinkSponsors, matchSkylinkUri) ==
    IF Len(dnslinkSkylinks) > 1
    THEN Failure("MultipleSkylinksError",
                 "Multiple TXT records with valid skynet dnslink found for "
                 \o lookup \o ", only one allowed")
    ELSE IF Len(dnslinkSkylinks) = 0 /\ Len(dnslinkSponsors) = 0
            /\ ~matchSkylinkUri.matched
    THEN Failure("NoSkynetDNSLinksFoundError",
                 "TXT records for " \o lookup
                 \o " found but none of them contained valid skynet dnslink - "
                 \o hint)
    ELSE Failure("ok", "")

\* CheckRecords as before the uri was introduced: no record of either
\* convention is an error whatever the uri
CheckRecordsIgnoreUri(lookup, dnslinkSkylinks, dnslinkSponsors, matchSkylinkUri) ==
    IF Len(dnslinkSkylinks) > 1
    THEN Failure("MultipleSkylinksError",
                 "Multiple TXT records with valid skynet dnslink found for "
                 \o lookup \o ", only one allowed")
    ELSE IF Len(dnslinkSponsors) > 1
    THEN Failure("MultipleSponsorKeyRecordsError",
                 "Multiple TXT records with valid sponsor key found for "
                 \o lookup \o ", only one allowed")
    ELSE IF Len(dnslinkSkylinks) = 0 /\ Len(dnslinkSponsors) = 0
    THEN Failure("NoSkynetDNSLinksFoundError",
                 "TXT records for " \o lookup
                 \o " found but none of them contained valid skynet dnslink - "
                 \o hint)
    ELSE Failure("ok", "")

\* CheckRecords without the check that anything was found
CheckRecordsNoneRequired(lookup, dnslinkSkylinks, dnslinkSponsors, matchSkylinkUri) ==
    IF Len(dnslinkSkylinks) > 1
    THEN Failure("MultipleSkylinksError",
                 "Multiple TXT records with valid skynet dnslink found for "
                 \o lookup \o ", only one allowed")
    ELSE IF Len(dnslinkSponsors) > 1
    THEN Failure("MultipleSponsorKeyRecordsError",
                 "Multiple TXT records with valid sponsor key found for "
                 \o lookup \o ", only one allowed")
    ELSE Failure("ok", "")

\* CheckRecords with the count of the sponsor records checked first
CheckRecordsSponsorFirst(lookup, dnslinkSkylinks, dnslinkSponsors, matchSkylinkUri) ==
    IF Len(dnslinkSponsors) > 1
    THEN Failure("MultipleSponsorKeyRecordsError",
                 "Multiple TXT records with valid sponsor key found for "
                 \o lookup \o ", only one allowed")
    ELSE IF Len(dnslinkSkylinks) > 1
    THEN Failure("MultipleSkylinksError",
                 "Multiple TXT records with valid skynet dnslink found for "
                 \o lookup \o ", only one allowed")
    ELSE IF Len(dnslinkSkylinks) = 0 /\ Len(dnslinkSponsors) = 0
            /\ ~matchSkylinkUri.matched
    THEN Failure("NoSkynetDNSLinksFoundError",
                 "TXT records for " \o lookup
                 \o " found but none of them contained valid skynet dnslink - "
                 \o hint)
    ELSE Failure("ok", "")

\* the cardinality checks (lines 57-78): the error thrown, or kind "ok"
CheckRecords(lookup, dnslinkSkylinks, dnslinkSponsors, matchSkylinkUri) ==
    IF Len(dnslinkSkylinks) > 1
    THEN Failure("MultipleSkylinksError",
                 "Multiple TXT records with valid skynet dnslink found for "
                 \o lookup \o ", only one allowed")
    ELSE IF Len(dnslinkSponsors) > 1
    THEN Failure("MultipleSponsorKeyRecordsError",
                 "Multiple TXT records with valid sponsor key found for "
                 \o lookup \o ", only one allowed")
    ELSE IF Len(dnslinkSkylinks) = 0 /\ Len(dnslinkSponsors) = 0
            /\ ~matchSkylinkUri.matched
    THEN Failure("NoSkynetDNSLinksFoundError",
                 "TXT records for " \o lookup
                 \o " found but none of them contained valid skynet dnslink - "
                 \o hint)
    ELSE Failure("ok", "")

\* BuildResponse with the skylink of the uri before the one of the dnslink record
BuildResponseUriFirst(lookup, dnslinkSkylinks, dnslinkSponsors, matchSkylinkUri, uri) ==
    IF matchSkylinkUri.matched
    THEN Respond(lookup, Some(matchSkylinkUri.skylink),
                 IF matchSkylinkUri.path.has THEN matchSkylinkUri.path
                 ELSE Some(<<Slash>>),
                 dnslinkSponsors)
    ELSE IF Len(dnslinkSkylinks) = 1
    THEN LET matchSkylink == dnslinkSkylinkRegExp(dnslinkSkylinks[1])
         IN  IF ~matchSkylink.has
             THEN Failure("InvalidSkylinkError",
                          "TXT record with skynet dnslink for " \o lookup
                          \o " contains invalid skylink - " \o hint)
             ELSE Respond(lookup, matchSkylink, uri, dnslinkSponsors)
    ELSE Respond(lookup, None, uri, dnslinkSponsors)

\* BuildResponse with path left at uri when the skylink comes from the uri
BuildResponseKeepPath(lookup, dnslinkSkylinks, dnslinkSponsors, matchSkylinkUri, uri) ==
    IF Len(dnslinkSkylinks) = 1
    THEN LET matchSkylink == dnslinkSkylinkRegExp(dnslinkSkylinks[1])
         IN  IF ~matchSkylink.has
             THEN Failure("InvalidSkylinkError",
                          "TXT record with skynet dnslink for " \o lookup
                          \o " contains invalid skylink - " \o hint)
             ELSE Respond(lookup, matchSkylink, uri, dnslinkSponsors)
    ELSE IF matchSkylinkUri.matched
    THEN Respond(lookup, Some(matchSkylinkUri.skylink), uri, dnslinkSponsors)
    ELSE Respond(lookup, None, uri, dnslinkSponsors)

\* the response (lines 80-99): path defaults to uri; the skylink of the single
\* dnslink record, else the skylink and the path of the uri match
BuildResponse(lookup, dnslinkSkylinks, dnslinkSponsors, matchSkylinkUri, uri) ==
    IF Len(dnslinkSkylinks) = 1
    THEN LET matchSkylink == dnslinkSkylinkRegExp(dnslinkSkylinks[1])
         IN  IF ~matchSkylink.has
             THEN Failure("InvalidSkylinkError",
                          "TXT record with skynet dnslink for " \o lookup
                          \o " contains invalid skylink - " \o hint)
             ELSE Respond(lookup, matchSkylink, uri, dnslinkSponsors)
    ELSE IF matchSkylinkUri.matched
    THEN Respond(lookup, Some(matchSkylinkUri.skylink),
                 IF matchSkylinkUri.path.has THEN matchSkylinkUri.path
                 ELSE Some(<<Slash>>),
                 dnslinkSponsors)
    ELSE Respond(lookup, None, uri, dnslinkSponsors)

\* ResolveRecords that counts the skylink records with a valid skylink only
ResolveRecordsCountsValid(lookup, addresses, uri) ==
    LET records == Flat(addresses)
        dnslinkSkylinks == SelectSeq(records,
                                     LAMBDA r : dnslinkRegExp(r) /\ dnslinkSkylinkRegExp(r).has)
        dnslinkSponsors == SelectSeq(records, sponsorRegExp)
        matchSkylinkUri == IF uri.has /\ uri.val # <<>>
                           THEN uriSkylinkRegExp(uri.val)
                           ELSE NoMatch
        check == CheckRecords(lookup, dnslinkSkylinks, dnslinkSponsors, matchSkylinkUri)
    IN  IF check.kind # "ok" THEN check
        ELSE BuildResponse(lookup, dnslinkSkylinks, dnslinkSponsors, matchSkylinkUri, uri)

\* ResolveRecords that takes the first record of each convention
ResolveRecordsFirstWins(lookup, addresses, uri) ==
    LET records == Flat(addresses)
        first(s) == IF s = <<>> THEN <<>> ELSE <<Head(s)>>
        dnslinkSkylinks == first(SelectSeq(records, dnslinkRegExp))
        dnslinkSponsors == first(SelectSeq(records, sponsorRegExp))
        matchSkylinkUri == IF uri.has /\ uri.val # <<>>
                           THEN uriSkylinkRegExp(uri.val)
                           ELSE NoMatch
        check == CheckRecords(lookup, dnslinkSkylinks, dnslinkSponsors, matchSkylinkUri)
    IN  IF check.kind # "ok" THEN check
        ELSE BuildResponse(lookup, dnslinkSkylinks, dnslinkSponsors, matchSkylinkUri, uri)

\* resolve from the answer of dnsResolveTxt on
ResolveRecords(lookup, addresses, uri) ==
    LET records == Flat(addresses)
        dnslinkSkylinks == SelectSeq(records, dnslinkRegExp)
        dnslinkSponsors == SelectSeq(records, sponsorRegExp)
        matchSkylinkUri == IF uri.has /\ uri.val # <<>>
                           THEN uriSkylinkRegExp(uri.val)
                           ELSE NoMatch
        check == CheckRecords(lookup, dnslinkSkylinks, dnslinkSponsors, matchSkylinkUri)
    IN  IF check.kind # "ok" THEN check
        ELSE BuildResponse(lookup, dnslinkSkylinks, dnslinkSponsors, matchSkylinkUri, uri)

(***************************************************************************)
(* The request parameters of the HTTP routes: the domain name that         *)
(* validateRequest checks with is-valid-domain, and the base64 uri that    *)
(* the second route decodes with Buffer.from(..., "base64").toString().    *)
(***************************************************************************)
Period == 46
Asterisk == 42

\* value.toLowerCase()
toLowerCase(s) == [i \in 1..Len(s) |-> IF s[i] \in Upper THEN s[i] + 32 ELSE s[i]]

\* value.split("."), from position i on with the label begun so far
RECURSIVE split(_, _, _)
split(s, i, label) ==
    IF i > Len(s) THEN <<label>>
    ELSE IF s[i] = Period THEN <<label>> \o split(s, i + 1, <<>>)
    ELSE split(s, i + 1, Append(label, s[i]))

\* (label.match(/--(--)?/g) || []).length: the runs of two or four hyphens,
\* counted from the left
RECURSIVE doubleDashCount(_, _)
doubleDashCount(label, i) ==
    IF i + 1 > Len(label) THEN 0
    ELSE IF label[i] = Hyphen /\ label[i + 1] = Hyphen
    THEN IF i + 3 <= Len(label) /\ label[i + 2] = Hyphen /\ label[i + 3] = Hyphen
         THEN 1 + doubleDashCount(label, i + 4)
         ELSE 1 + doubleDashCount(label, i + 2)
    ELSE doubleDashCount(label, i + 1)

\* (label.match(/xn--/g) || []).length
RECURSIVE xnDashCount(_, _)
xnDashCount(label, i) ==
    IF i + 3 > Len(label) THEN 0
    ELSE IF SubSeq(label, i, i + 3) = <<120, 110, Hyphen, Hyphen>>
    THEN 1 + xnDashCount(label, i + 4)
    ELSE xnDashCount(label, i + 1)

\* /^(?:xn--)?(?!^\d+$)[a-z0-9]+$/i on the last label
tldRegex(tld) ==
    LET rest == IF Len(tld) >= 4 /\ SubSeq(tld, 1, 4) = <<120, 110, Hyphen, Hyphen>>
                THEN SubSeq(tld, 5, Len(tld))
                ELSE tld
    IN  /\ Len(rest) > 0
        /\ \A i \in 1..Len(rest) : rest[i] \in Lower \cup Digit
        /\ \E i \in 1..Len(tld) : tld[i] \notin Digit

\* the check of one label: its characters (no underscore in the label next
\* to the top-level one), its length, its first and last character and, in
\* the label next to the top-level one, hyphen pairs only as part of xn--
validLabel(label, last) ==
    /\ Len(label) > 0
    /\ \A i \in 1..Len(label) :
          label[i] \in Lower \cup Upper \cup Digit \cup {Hyphen}
                       \cup (IF last THEN {} ELSE {Underscore})
    /\ Len(label) < 64
    /\ label[1] # Hyphen
    /\ label[Len(label)] # Hyphen
    /\ last => doubleDashCount(label, 1) = xnDashCount(label, 1)

\* isValidDomain(value) with no options (names under the two-label suffixes
\* of the package's table, such as co.uk, take the same checks one label
\* earlier; ASCII names only)
isValidDomain(value) ==
    LET lower == toLowerCase(value)
        name == IF Len(lower) > 0 /\ lower[Len(lower)] = Period
                THEN SubSeq(lower, 1, Len(lower) - 1)
                ELSE lower
        parts == split(name, 1, <<>>)
        labels == SubSeq(parts, 1, Len(parts) - 1)
    IN  /\ Len(name) <= 253
        /\ Len(name) > 0
        /\ \A i \in 1..Len(name) :
              name[i] \in Lower \cup Digit \cup {Hyphen, Period, Underscore, Asterisk}
        /\ Len(parts) > 1
        /\ tldRegex(parts[Len(parts)])
        /\ \A i \in 1..Len(labels) : validLabel(labels[i], i = Len(labels))

\* the value of a base64 digit, of the standard or of the URL-safe alphabet;
\* -1 for any other character
Base64Index(c) ==
    IF c \in Upper THEN c - 65
    ELSE IF c \in Lower THEN c - 71
    ELSE IF c \in Digit THEN c + 4
    ELSE IF c \in {43, Hyphen} THEN 62
    ELSE IF c \in {Slash, Underscore} THEN 63
    ELSE -1

\* the base64 digits of s up to its first "=", other characters left out
RECURSIVE base64Digits(_, _)
base64Digits(s, i) ==
    IF i > Len(s) \/ s[i] = Equals THEN <<>>
    ELSE IF Base64Index(s[i]) < 0 THEN base64Digits(s, i + 1)
    ELSE <<Base64Index(s[i])>> \o base64Digits(s, i + 1)

\* the bytes of a sequence of base64 digits: three per four digits, two for
\* three digits left over, one for two, none for one
RECURSIVE base64Bytes(_, _)
base64Bytes(d, i) ==
    IF i + 3 <= Len(d)
    THEN LET n == d[i] * 262144 + d[i + 1] * 4096 + d[i + 2] * 64 + d[i + 3]
         IN  <<n \div 65536, (n \div 256) % 256, n % 256>> \o base64Bytes(d, i + 4)
    ELSE IF i + 2 = Len(d)
    THEN <<d[i] * 4 + d[i + 1] \div 16, ((d[i + 1] % 16) * 16) + d[i + 2] \div 4>>
    ELSE IF i + 1 = Len(d)
    THEN <<d[i] * 4 + d[i + 1] \div 16>>
    ELSE <<>>

\* Buffer.from(encodedUri, "base64").toString(): the bytes read as UTF-8,
\* a byte outside ASCII as the replacement character (U+FFFD)
decodeUri(encodedUri) ==
    LET bytes == base64Bytes(base64Digits(encodedUri, 1), 1)
    IN  [i \in 1..Len(bytes) |-> IF bytes[i] < 128 THEN bytes[i] ELSE 65533]

(***************************************************************************)
(* The inputs the environment draws from: identifiers, TXT records, TXT    *)
(* answers (lists of record groups), uris, domains, failure codes.         *)
(***************************************************************************)
\* "AQCYCPSmSMfmZjOKLX4zoYHHTNJQW2daVgZ2PTpkASFlSA"
SkylinkA ==
    <<65, 81, 67, 89, 67, 80, 83, 109, 83, 77, 102, 109, 90, 106, 79, 75,
      76, 88, 52, 122, 111, 89, 72, 72, 84, 78, 74, 81, 87, 50, 100, 97, 86,
      103, 90, 50, 80, 84, 112, 107, 65, 83, 70, 108, 83, 65>>
\* "AQCYCPSmSMfmZjOKLX4zoYHHTNJQW2daVgZ2PTpkASFlSB"
SkylinkB ==
    <<65, 81, 67, 89, 67, 80, 83, 109, 83, 77, 102, 109, 90, 106, 79, 75,
      76, 88, 52, 122, 111, 89, 72, 72, 84, 78, 74, 81, 87, 50, 100, 97, 86,
      103, 90, 50, 80, 84, 112, 107, 65, 83, 70, 108, 83, 66>>
\* "6005qmb95rko24pjdjka0o5388mrkhme3bk7duv2lmt8nquc6766568", the base32 form
\* of SkylinkM64
SkylinkM32 ==
    <<54, 48, 48, 53, 113, 109, 98, 57, 53, 114, 107, 111, 50, 52, 112, 106,
      100, 106, 107, 97, 48, 111, 53, 51, 56, 56, 109, 114, 107, 104, 109,
      101, 51, 98, 107, 55, 100, 117, 118, 50, 108, 109, 116, 56, 110, 113,
      117, 99, 54, 55, 54, 54, 53, 54, 56>>
\* "MABdWWku6YETM2zooGCjQi26Rs4a6Hb74q26i-vMMcximQ"
SkylinkM64 ==
    <<77, 65, 66, 100, 87, 87, 107, 117, 54, 89, 69, 84, 77, 50, 122, 111,
      111, 71, 67, 106, 81, 105, 50, 54, 82, 115, 52, 97, 54, 72, 98, 55,
      52, 113, 50, 54, 105, 45, 118, 77, 77, 99, 120, 105, 109, 81>>
\* "6005qmb95rko24pjdjka0o5388mrkhme3bk7duv2lmt8nquc676656z": 55 characters
\* of [a-z0-9], of which z is no base32 digit
SkylinkZ32 ==
    <<54, 48, 48, 53, 113, 109, 98, 57, 53, 114, 107, 111, 50, 52, 112, 106,
      100, 106, 107, 97, 48, 111, 53, 51, 56, 56, 109, 114, 107, 104, 109,
      101, 51, 98, 107, 55, 100, 117, 118, 50, 108, 109, 116, 56, 110, 113,
      117, 99, 54, 55, 54, 54, 53, 54, 122>>

\* "x"
CharX == <<120>>
\* "/foo/bar"
FooBar == <<47, 102, 111, 111, 47, 98, 97, 114>>

RecA == dnslinkPrefix \o SkylinkA
RecM32 == dnslinkPrefix \o SkylinkM32
RecZ32 == dnslinkPrefix \o SkylinkZ32
\* an identifier followed by one more character
RecLong == dnslinkPrefix \o SkylinkA \o CharX
\* "dnslink=/skynet-ns/broken-skylink"
RecBroken ==
    dnslinkPrefix \o <<98, 114, 111, 107, 101, 110, 45, 115, 107, 121, 108, 105, 110, 107>>
\* "skynet-sponsor-key=dummySponsorKey1"
RecSponsor1 ==
    sponsorPrefix \o <<100, 117, 109, 109, 121, 83, 112, 111, 110, 115, 111, 114, 75, 101, 121, 49>>
\* "skynet-sponsor-key=dummySponsorKey2"
RecSponsor2 ==
    sponsorPrefix \o <<100, 117, 109, 109, 121, 83, 112, 111, 110, 115, 111, 114, 75, 101, 121, 50>>
\* "dnslink=/dummy-namespace/abcd-1234"
RecOther ==
    <<100, 110, 115, 108, 105, 110, 107, 61, 47, 100, 117, 109, 109, 121, 45, 110, 97,
      109, 101, 115, 112, 97, 99, 101, 47, 97, 98, 99, 100, 45, 49, 50, 51, 52>>

RecordPool == {RecA, RecM32, RecZ32, RecLong, RecBroken, RecSponsor1, RecSponsor2, RecOther}

\* the longest TXT answer, in records
MaxRecords == 3

RecordSeqs == UNION {[1..n -> RecordPool] : n \in 0..MaxRecords}

\* every record a group of its own, as dns.resolveTxt returns an unchunked answer
OwnGroups(records) == [i \in 1..Len(records) |-> <<records[i]>>]

\* answers grouped otherwise: one group without fragments, several fragments
\* in one group, groups without fragments between the others
GroupedAnswers ==
    {<<<<>>>>,
     <<<<RecA, RecSponsor1>>>>,
     <<<<>>, <<RecSponsor1>>, <<>>, <<RecOther, RecM32>>>>,
     <<<<RecSponsor1, RecSponsor2>>, <<RecLong>>>>}

\* longer answers: two skylink records with two sponsor records, and records
\* of neither convention around a skylink and a sponsor record
LongAnswers ==
    {<<<<RecA>>, <<RecSponsor1>>, <<RecM32>>, <<RecSponsor2>>>>,
     <<<<RecSponsor1>>, <<RecSponsor2>>, <<RecA>>, <<RecBroken>>>>,
     <<<<RecOther>>, <<RecA>>, <<RecOther>>, <<RecSponsor1>>>>}

TxtAnswers == {OwnGroups(r) : r \in RecordSeqs} \cup LongAnswers \cup GroupedAnswers

Uris == {None, Some(<<>>),
         Some(<<Slash>> \o SkylinkB),
         Some(<<Slash>> \o SkylinkB \o FooBar),
         Some(<<Slash>> \o SkylinkM32),
         Some(<<Slash>> \o SkylinkZ32),
         Some(<<Slash>> \o SkylinkB \o CharX),
         Some(FooBar)}

\* the answers, uris and errors of the concurrent specification
FewTxtAnswers == {<<>>, <<<<RecA>>, <<RecSponsor1>>>>}
FewUris == {None}
FewUpstreamErrors == {[code |-> "ENOTFOUND", message |-> "queryTxt ENOTFOUND"]}

\* the answers and uris of the specification of repeated calls: no record,
\* two skylink records, two sponsor records, an invalid skylink record
RepeatAnswers ==
    {<<>>, <<<<RecA>>, <<RecM32>>>>, <<<<RecSponsor1>>, <<RecSponsor2>>>>,
     <<<<RecBroken>>>>}
RepeatUris == {None, Some(<<Slash>> \o SkylinkB)}

\* the answers of the specification of two concurrent queries for one key
RaceAnswers == {<<>>, <<<<RecA>>>>, <<<<RecM32>>>>, <<<<RecA>>, <<RecSponsor1>>>>}

\* max and ttl of dnsCache, scaled down
CacheMax == 2

Domains == {"skynetlabs.com", "siasky.net"}
\* Lookup without the _dnslink label: the domain itself is looked up
LookupDomain(domain) == domain

Lookup(domain) == "_dnslink." \o domain

\* the domains of the specification of the cache's capacity: one more than
\* the cache holds
DomainNames ==
    <<"skynetlabs.com", "siasky.net", "skynetlabs.io", "weird.domain", "example.com">>
LruDomains == {DomainNames[i] : i \in 1..(CacheMax + 1)}
LruAnswers == {<<<<RecA>>>>}
\* the upstream queries of that specification
MaxLruQueries == 3

\* the names of the HTTP requests: "skynetlabs.com", "siasky.net",
\* "_dmarc.siasky.net", and the names the tests of validateRequest reject:
\* "xyz", ".com", "invalid--domain.com"
NameSkynetlabs == <<115, 107, 121, 110, 101, 116, 108, 97, 98, 115, 46, 99, 111, 109>>
NameSiasky == <<115, 105, 97, 115, 107, 121, 46, 110, 101, 116>>
NameDmarc == <<95, 100, 109, 97, 114, 99, 46, 115, 105, 97, 115, 107, 121, 46, 110, 101, 116>>
NameXyz == <<120, 121, 122>>
NameDotCom == <<46, 99, 111, 109>>
NameDoubleDash ==
    <<105, 110, 118, 97, 108, 105, 100, 45, 45, 100, 111, 109, 97, 105, 110, 46, 99, 111, 109>>
HttpNames == {NameSkynetlabs, NameSiasky, NameDmarc, NameXyz, NameDotCom, NameDoubleDash}
HttpDomains == {Text(n) : n \in {m \in HttpNames : isValidDomain(m)}}

\* the encoded uris of the HTTP requests: "Lw==" ("/") and the base64 text of
\* "/AQCYCPSmSMfmZjOKLX4zoYHHTNJQW2daVgZ2PTpkASFlSB/foo/bar"
EncodedSlash == <<76, 119, 61, 61>>
EncodedSkylinkPath ==
    <<76, 48, 70, 82, 81, 49, 108, 68, 85, 70, 78, 116, 85, 48, 49, 109, 98, 86,
      112, 113, 84, 48, 116, 77, 87, 68, 82, 54, 98, 49, 108, 73, 83, 70, 82, 79,
      83, 108, 70, 88, 77, 109, 82, 104, 86, 109, 100, 97, 77, 108, 66, 85, 99,
      71, 116, 66, 85, 48, 90, 115, 85, 48, 73, 118, 90, 109, 57, 118, 76, 50,
      74, 104, 99, 103, 61, 61>>
EncodedUris == {EncodedSlash, EncodedSkylinkPath}

\* the answers of the specification of the HTTP routes: a skylink with a
\* sponsor, a sponsor alone, a skylink the conversion rejects, an invalid
\* skylink, no record
HttpAnswers ==
    {<<<<RecA>>, <<RecSponsor1>>>>, <<<<RecSponsor1>>>>, <<<<RecZ32>>>>,
     <<<<RecBroken>>>>, <<>>}
Routes == {1, 2}

Lookups == {Lookup(d) : d \in Domains \cup LruDomains \cup HttpDomains}

\* the errors dns.resolveTxt rejects with
UpstreamErrors ==
    {[code |-> "ENOTFOUND", message |-> "queryTxt ENOTFOUND"],
     [code |-> "ENODATA", message |-> "queryTxt ENODATA"],
     [code |-> "ESERVFAIL", message |-> "queryTxt ESERVFAIL"],
     [code |-> "", message |-> "server failure message"]}

NumClients == 2
Clients == 1..NumClients
MaxTime == 3
MaxQueries == 2

(***************************************************************************)
(* dnsCache: the lru-cache instance of dnsResolveTxt.  The entries are     *)
(* kept in order of use, the least recently used first; an entry records   *)
(* the time it was set.  max and ttl are the configured values, scaled.    *)
(***************************************************************************)
CacheTTL == 2

VARIABLES
    dnsCache,   \* the cache entries, least recently used first
    now,        \* the clock the cache reads
    req,        \* per client: the call of resolve in progress and its outcome
    queries,    \* per lookup key: the upstream queries issued so far
    succeeded   \* the lookup keys for which an upstream query has succeeded

vars == <<dnsCache, now, req, queries, succeeded>>

\* no rejection of dns.resolveTxt
NoError == [code |-> "", message |-> ""]

\* the body of a JSON response: the properties of the object that are defined
NoJson == [skylink |-> None, sponsor |-> None, path |-> None]
\* nothing sent yet
NoResponse == [sent |-> 0, status |-> 0, contentType |-> "", text |-> "", json |-> NoJson]

\* route is 0 for a direct call of resolve, 1 for /dnslink/:name and 2 for
\* /dnslink/:name/:encodedUri; name is req.params.name, log the line the
\* call has logged, res what was sent
Idle ==
    [pc |-> "idle", route |-> 0, name |-> <<>>, domain |-> "", uri |-> None,
     queried |-> FALSE, addresses |-> None, error |-> NoError,
     out |-> Failure("", ""), log |-> "", res |-> NoResponse]

\* position of key's entry in the cache, 0 when there is none
RECURSIVE IndexOfKey(_, _, _)
IndexOfKey(cache, key, i) ==
    IF i > Len(cache) THEN 0
    ELSE IF cache[i].key = key THEN i
    ELSE IndexOfKey(cache, key, i + 1)

Remove(cache, i) == SubSeq(cache, 1, i - 1) \o SubSeq(cache, i + 1, Len(cache))

\* isStale with the entry taken for stale as soon as ttl has passed
isStaleAtTtl(entry, t) == t - entry.start >= CacheTTL

\* an entry is stale once more than ttl has passed since it was set
isStale(entry, t) == t - entry.start > CacheTTL

\* dnsCache.has(key): present and not stale; changes nothing
CacheHas(cache, key, t) ==
    LET i == IndexOfKey(cache, key, 1)
    IN  i # 0 /\ ~isStale(cache[i], t)

\* dnsCache.get(key): the value returned (None for undefined) ...
CacheGetValue(cache, key, t) ==
    LET i == IndexOfKey(cache, key, 1)
    IN  IF i = 0 \/ isStale(cache[i], t) THEN None ELSE Some(cache[i].value)

\* CacheGet that sets the time of a fresh entry to the time of the hit
CacheGetUpdatesAge(cache, key, t) ==
    LET i == IndexOfKey(cache, key, 1)
    IN  IF i = 0 THEN cache
        ELSE IF isStale(cache[i], t) THEN Remove(cache, i)
        ELSE Append(Remove(cache, i), [cache[i] EXCEPT !.start = t])

\* CacheGet that leaves a fresh entry where it is in the order of use
CacheGetKeepsOrder(cache, key, t) ==
    LET i == IndexOfKey(cache, key, 1)
    IN  IF i = 0 THEN cache
        ELSE IF isStale(cache[i], t) THEN Remove(cache, i)
        ELSE cache

\* ... and the cache after it: a stale entry is deleted, a fresh one becomes
\* the most recently used and keeps the time it was set
CacheGet(cache, key, t) ==
    LET i == IndexOfKey(cache, key, 1)
    IN  IF i = 0 THEN cache
        ELSE IF isStale(cache[i], t) THEN Remove(cache, i)
        ELSE Append(Remove(cache, i), cache[i])

\* CacheSet that leaves the entry of a key that is cached as it is
CacheSetKeepsExisting(cache, key, value, t) ==
    LET i == IndexOfKey(cache, key, 1)
        entry == [key |-> key, value |-> value, start |-> t]
    IN  IF i # 0 THEN cache
        ELSE IF Len(cache) >= CacheMax THEN Append(Tail(cache), entry)
        ELSE Append(cache, entry)

\* dnsCache.set(key, value): an existing entry is overwritten, a new key at
\* full capacity evicts the least recently used entry; either way the entry
\* becomes the most recently used and its time is set to now
CacheSet(cache, key, value, t) ==
    LET i == IndexOfKey(cache, key, 1)
        entry == [key |-> key, value |-> value, start |-> t]
    IN  IF i # 0 THEN Append(Remove(cache, i), entry)
        ELSE IF Len(cache) >= CacheMax THEN Append(Tail(cache), entry)
        ELSE Append(cache, entry)

\* ResolutionError without the case of ENODATA
ResolutionErrorNoData(lookup, error) ==
    Failure("ResolutionError",
            IF error.code = "ENOTFOUND"
            THEN "ENOTFOUND: " \o lookup \o " TXT record doesn't exist"
            ELSE "Failed to fetch " \o lookup \o " TXT record: " \o error.message)

\* the ResolutionError dnsResolveTxt throws for a rejected query
ResolutionError(lookup, error) ==
    Failure("ResolutionError",
            IF error.code = "ENOTFOUND"
            THEN "ENOTFOUND: " \o lookup \o " TXT record doesn't exist"
            ELSE IF error.code = "ENODATA"
            THEN "ENODATA: " \o lookup \o " dns lookup returned no data"
            ELSE "Failed to fetch " \o lookup \o " TXT record: " \o error.message)

\* the upstream queries issued so far for the keys of a set
RECURSIVE TotalQueries(_)
TotalQueries(keys) ==
    IF keys = {} THEN 0
    ELSE LET k == CHOOSE x \in keys : TRUE
         IN  queries[k] + TotalQueries(keys \ {k})

Init ==
    /\ dnsCache = <<>>
    /\ now = 0
    /\ req = [c \in Clients |-> Idle]
    /\ queries = [k \in Lookups |-> 0]
    /\ succeeded = {}

\* resolve(domain, uri) is called and runs to the await of dns.resolveTxt, or,
\* on a cache hit, to its end; call is the caller's state when it calls
\* resolve, budget bounds the upstream queries of a run
ResolveFrom(c, call, domain, uri, budget) ==
    LET lookup == Lookup(domain)
    IN  /\ req[c].pc = "idle"
        /\ IF CacheHas(dnsCache, lookup, now)
           THEN LET addresses == CacheGetValue(dnsCache, lookup, now)
                IN  /\ dnsCache' = CacheGet(dnsCache, lookup, now)
                    /\ req' = [req EXCEPT ![c] =
                                 [call EXCEPT
                                    !.pc = "done", !.domain = domain, !.uri = uri,
                                    !.addresses = addresses,
                                    !.out = ResolveRecords(lookup, addresses.val, uri),
                                    !.log = loggerInfo(domain,
                                              ResolveRecords(lookup, addresses.val, uri))]]
                    /\ UNCHANGED queries
           ELSE /\ TotalQueries(Lookups) < budget
                /\ queries' = [queries EXCEPT ![lookup] = @ + 1]
                /\ req' = [req EXCEPT ![c] =
                             [call EXCEPT !.pc = "await", !.domain = domain,
                                          !.uri = uri, !.queried = TRUE]]
                /\ UNCHANGED dnsCache
        /\ UNCHANGED <<now, succeeded>>

\* resolve called directly, as the concurrent specification and the single
\* call run it
Resolve(c, domain, uri) == ResolveFrom(c, Idle, domain, uri, MaxQueries)

\* ResolveTxtSuccess with the answer handed to every call that awaits the key
ResolveTxtSuccessShared(c, addresses) ==
    LET lookup == Lookup(req[c].domain)
    IN  /\ req[c].pc = "await"
        /\ dnsCache' = CacheSet(dnsCache, lookup, addresses, now)
        /\ succeeded' = succeeded \cup {lookup}
        /\ req' = [d \in Clients |->
                     IF req[d].pc = "await" /\ req[d].domain = req[c].domain
                     THEN [req[d] EXCEPT !.pc = "done", !.addresses = Some(addresses),
                                         !.out = ResolveRecords(lookup, addresses, req[d].uri),
                                         !.log = loggerInfo(req[d].domain,
                                                   ResolveRecords(lookup, addresses,
                                                                  req[d].uri))]
                     ELSE req[d]]
        /\ UNCHANGED <<now, queries>>

\* ResolveTxtSuccess that caches the addresses only when resolve succeeds
ResolveTxtSuccessCachesResults(c, addresses) ==
    LET lookup == Lookup(req[c].domain)
        out == ResolveRecords(lookup, addresses, req[c].uri)
    IN  /\ req[c].pc = "await"
        /\ dnsCache' = IF out.kind = "ok" THEN CacheSet(dnsCache, lookup, addresses, now)
                       ELSE dnsCache
        /\ succeeded' = succeeded \cup {lookup}
        /\ req' = [req EXCEPT ![c] =
                     [@ EXCEPT !.pc = "done", !.addresses = Some(addresses),
                               !.out = out, !.log = loggerInfo(req[c].domain, out)]]
        /\ UNCHANGED <<now, queries>>

\* dns.resolveTxt resolves with addresses: they are cached and resolve runs
\* to its end
ResolveTxtSuccess(c, addresses) ==
    LET lookup == Lookup(req[c].domain)
    IN  /\ req[c].pc = "await"
        /\ dnsCache' = CacheSet(dnsCache, lookup, addresses, now)
        /\ succeeded' = succeeded \cup {lookup}
        /\ req' = [req EXCEPT ![c] =
                     [@ EXCEPT !.pc = "done", !.addresses = Some(addresses),
                               !.out = ResolveRecords(lookup, addresses, req[c].uri),
                               !.log = loggerInfo(req[c].domain,
                                         ResolveRecords(lookup, addresses, req[c].uri))]]
        /\ UNCHANGED <<now, queries>>

\* ResolveTxtFailure with the failure cached as an answer without records
ResolveTxtFailureCached(c, error) ==
    LET lookup == Lookup(req[c].domain)
    IN  /\ req[c].pc = "await"
        /\ dnsCache' = CacheSet(dnsCache, lookup, <<>>, now)
        /\ req' = [req EXCEPT ![c] =
                     [@ EXCEPT !.pc = "done", !.error = error,
                               !.out = ResolutionError(lookup, error)]]
        /\ UNCHANGED <<now, queries, succeeded>>

\* ResolveTxtFailure with the rejected query issued once more
ResolveTxtFailureRetry(c, error) ==
    LET lookup == Lookup(req[c].domain)
    IN  /\ req[c].pc = "await"
        /\ IF TotalQueries(Lookups) < MaxQueries
           THEN /\ queries' = [queries EXCEPT ![lookup] = @ + 1]
                /\ req' = [req EXCEPT ![c] = [@ EXCEPT !.error = error]]
           ELSE /\ req' = [req EXCEPT ![c] =
                             [@ EXCEPT !.pc = "done", !.error = error,
                                       !.out = ResolutionError(lookup, error)]]
                /\ UNCHANGED queries
        /\ UNCHANGED <<dnsCache, now, succeeded>>

\* dns.resolveTxt rejects with error: resolve fails with the ResolutionError
ResolveTxtFailure(c, error) ==
    LET lookup == Lookup(req[c].domain)
    IN  /\ req[c].pc = "await"
        /\ req' = [req EXCEPT ![c] =
                     [@ EXCEPT !.pc = "done", !.error = error,
                               !.out = ResolutionError(lookup, error)]]
        /\ UNCHANGED <<dnsCache, now, queries, succeeded>>

\* the caller takes the outcome
Return(c) ==
    /\ req[c].pc = "done"
    /\ req' = [req EXCEPT ![c] = Idle]
    /\ UNCHANGED <<dnsCache, now, queries, succeeded>>

\* time passes
Tick ==
    /\ now < MaxTime
    /\ now' = now + 1
    /\ UNCHANGED <<dnsCache, req, queries, succeeded>>

\* res.status(400).contentType("text/plain; charset=utf-8").send(error.message)
\* as express sent it before the content type was set
ErrorResponseHtml(res, message) ==
    [sent |-> res.sent + 1, status |-> 400, contentType |-> "text/html; charset=utf-8",
     text |-> message, json |-> NoJson]

\* res.status(400).contentType("text/plain; charset=utf-8").send(error.message)
ErrorResponse(res, message) ==
    [sent |-> res.sent + 1, status |-> 400, contentType |-> "text/plain; charset=utf-8",
     text |-> message, json |-> NoJson]

\* res.json(body)
JsonResponse(res, body) ==
    [sent |-> res.sent + 1, status |-> 200,
     contentType |-> "application/json; charset=utf-8", text |-> "", json |-> body]

\* the handler of a route with resolve called before validateRequest
GetUnvalidated(c, route, name, encodedUri) ==
    ResolveFrom(c, [Idle EXCEPT !.route = route, !.name = name], Text(name),
                IF route = 1 THEN None ELSE Some(decodeUri(encodedUri)),
                MaxQueries)

\* a request arrives on a route: the handler runs validateRequest and, for a
\* valid name, resolve (with the decoded uri on the second route) up to its
\* await; for an invalid name it answers with the InvalidRequestError
Get(c, route, name, encodedUri) ==
    /\ req[c].pc = "idle"
    /\ IF isValidDomain(name)
       THEN ResolveFrom(c, [Idle EXCEPT !.route = route, !.name = name], Text(name),
                        IF route = 1 THEN None ELSE Some(decodeUri(encodedUri)),
                        MaxQueries)
       ELSE LET error == Failure("InvalidRequestError",
                                 Text(name) \o " is not a valid domain")
            IN  /\ req' = [req EXCEPT ![c] =
                             [Idle EXCEPT !.pc = "responded", !.route = route,
                                          !.name = name, !.out = error,
                                          !.res = ErrorResponse(@, error.message)]]
                /\ UNCHANGED <<dnsCache, now, queries, succeeded>>

\* resolve has returned or thrown: the handler sends the result as JSON (the
\* first route only skylink and sponsor) or the message of the error
Send(c) ==
    /\ req[c].pc = "done"
    /\ req[c].route \in Routes
    /\ req' = [req EXCEPT ![c] =
                 [@ EXCEPT !.pc = "responded",
                           !.res = IF req[c].out.kind = "ok"
                                   THEN JsonResponse(@,
                                          [skylink |-> req[c].out.skylink,
                                           sponsor |-> req[c].out.sponsor,
                                           path |-> IF req[c].route = 1 THEN None
                                                    ELSE req[c].out.path])
                                   ELSE ErrorResponse(@, req[c].out.message)]]
    /\ UNCHANGED <<dnsCache, now, queries, succeeded>>

\* the request is over
End(c) ==
    /\ req[c].pc = "responded"
    /\ req' = [req EXCEPT ![c] = Idle]
    /\ UNCHANGED <<dnsCache, now, queries, succeeded>>

\* concurrent clients, two domains, the clock running
Next ==
    \/ \E c \in Clients, d \in Domains, u \in FewUris : Resolve(c, d, u)
    \/ \E c \in Clients, a \in FewTxtAnswers : ResolveTxtSuccess(c, a)
    \/ \E c \in Clients, e \in FewUpstreamErrors : ResolveTxtFailure(c, e)
    \/ \E c \in Clients : Return(c)
    \/ Tick

Spec == Init /\ [][Next]_vars

\* one call of resolve on an empty cache, for every uri, every TXT answer and
\* every upstream error
NextResolve ==
    \/ \E u \in Uris : Resolve(1, "skynetlabs.com", u)
    \/ \E a \in TxtAnswers : ResolveTxtSuccess(1, a)
    \/ \E e \in UpstreamErrors : ResolveTxtFailure(1, e)

SpecResolve == Init /\ [][NextResolve]_vars

\* one client looking up, one call after the other, one domain more than the
\* cache holds, the clock running
NextLru ==
    \/ \E d \in LruDomains : ResolveFrom(1, Idle, d, None, MaxLruQueries)
    \/ \E a \in LruAnswers : ResolveTxtSuccess(1, a)
    \/ \E e \in FewUpstreamErrors : ResolveTxtFailure(1, e)
    \/ Return(1)
    \/ Tick

SpecLru == Init /\ [][NextLru]_vars

\* concurrent calls for one domain whose answers make resolve fail after the
\* lookup, repeated while the clock runs
NextRepeat ==
    \/ \E c \in Clients, u \in RepeatUris : Resolve(c, "skynetlabs.com", u)
    \/ \E c \in Clients, a \in RepeatAnswers : ResolveTxtSuccess(c, a)
    \/ \E c \in Clients : Return(c)
    \/ Tick

SpecRepeat == Init /\ [][NextRepeat]_vars

\* two calls for one domain on an empty cache, the second starting while the
\* query of the first is pending; the queries settle in either order while
\* the clock runs
NextRace ==
    \/ \E d \in Domains : Resolve(1, d, None)
    \/ \E d \in Domains : req[1].pc = "await" /\ req[1].domain = d /\ Resolve(2, d, None)
    \/ \E c \in {1, 2}, a \in RaceAnswers : ResolveTxtSuccess(c, a)
    \/ Tick

SpecRace == Init /\ [][NextRace]_vars

\* one client sending requests to the two routes, one after the other
NextHttp ==
    \/ \E r \in Routes, n \in HttpNames, e \in EncodedUris : Get(1, r, n, e)
    \/ \E a \in HttpAnswers : ResolveTxtSuccess(1, a)
    \/ \E e \in UpstreamErrors : ResolveTxtFailure(1, e)
    \/ Send(1)
    \/ End(1)

SpecHttp == Init /\ [][NextHttp]_vars

(***************************************************************************)
(* The terms of the specification, stated on the inputs of a finished call *)
(* without the regular expressions of the code.                            *)
(***************************************************************************)
\* client c's call of resolve has ended after a successful lookup
Finished(c) == req[c].pc = "done" /\ req[c].addresses.has

\* the TXT set: every fragment of the answer, in order
RECURSIVE TxtSet(_)
TxtSet(groups) ==
    IF Len(groups) = 0 THEN <<>>
    ELSE TxtSet(SubSeq(groups, 1, Len(groups) - 1)) \o groups[Len(groups)]

TxtRecords(c) == TxtSet(req[c].addresses.val)

ValueOf(record) == SubSeq(record, Len(dnslinkPrefix) + 1, Len(record))

\* dnslink=/skynet-ns/<anything non-empty>
SkylinkConvention(record) ==
    /\ Len(record) > Len(dnslinkPrefix)
    /\ SubSeq(record, 1, Len(dnslinkPrefix)) = dnslinkPrefix

\* skynet-sponsor-key=<one or more alphanumeric characters>
SponsorConvention(record) ==
    /\ Len(record) > Len(sponsorPrefix)
    /\ SubSeq(record, 1, Len(sponsorPrefix)) = sponsorPrefix
    /\ \A i \in (Len(sponsorPrefix) + 1)..Len(record) : record[i] \in AlnumClass

SkylinkRecords(c) == SelectSeq(TxtRecords(c), SkylinkConvention)
SponsorRecords(c) == SelectSeq(TxtRecords(c), SponsorConvention)

\* a string of exactly 46 characters of the URL-safe base64 alphabet
IsBase64Form(s) == Len(s) = Base64Len /\ \A i \in 1..Len(s) : s[i] \in Base64Class
\* a string of exactly 55 lowercase base32 digits (0-9, a-v)
IsBase32Form(s) ==
    Len(s) = Base32Len /\ \A i \in 1..Len(s) : s[i] \in Digit \cup 97..118
\* a valid identifier
IsIdentifier(s) == IsBase64Form(s) \/ IsBase32Form(s)
\* a string of exactly the length and the character class of one of the two
\* alternatives of the identifier grammar
InGrammar(s) ==
    \/ IsBase64Form(s)
    \/ Len(s) = Base32Len /\ \A i \in 1..Len(s) : s[i] \in Base32Class

\* bit k (from 0) of the bits the base32 digits of id spell, 0 past the last
\* whole byte
IdBit(id, k) ==
    IF k >= 8 * ((5 * Len(id)) \div 8) THEN 0
    ELSE (Base32Index(id[(k \div 5) + 1]) \div Pow2(4 - (k % 5))) % 2

\* the canonical form of an identifier: itself in the base64 form, the base64
\* digits of the same bytes in the base32 form
CanonicalForm(id) ==
    IF Len(id) = Base64Len THEN id
    ELSE [j \in 1..Base64Len |->
            Base64Char(32 * IdBit(id, 6 * j - 6) + 16 * IdBit(id, 6 * j - 5)
                       + 8 * IdBit(id, 6 * j - 4) + 4 * IdBit(id, 6 * j - 3)
                       + 2 * IdBit(id, 6 * j - 2) + IdBit(id, 6 * j - 1))]

\* uri has the form /<identifier> or /<identifier>/<path>: the length of the
\* identifier, 0 when uri has not that form
UriIdentifierLen(uri) ==
    IF ~uri.has \/ Len(uri.val) = 0 \/ uri.val[1] # Slash THEN 0
    ELSE LET fits(n) == /\ Len(uri.val) >= n + 1
                        /\ IsIdentifier(SubSeq(uri.val, 2, n + 1))
                        /\ (Len(uri.val) = n + 1 \/ uri.val[n + 2] = Slash)
         IN  IF fits(Base32Len) THEN Base32Len
             ELSE IF fits(Base64Len) THEN Base64Len
             ELSE 0

UriIdentifier(uri) == SubSeq(uri.val, 2, UriIdentifierLen(uri) + 1)
\* what follows the identifier in uri
UriTrailing(uri) == SubSeq(uri.val, UriIdentifierLen(uri) + 2, Len(uri.val))

\* the uri match of resolve found an identifier
UriYieldsIdentifier(uri) ==
    uri.has /\ uri.val # <<>> /\ uriSkylinkRegExp(uri.val).matched

(***************************************************************************)
(* C1: with exactly one skylink-convention record carrying a valid         *)
(* identifier and at most one sponsor record, resolve returns the DNS      *)
(* identifier (in its canonical form) as skylink for every uri, also one   *)
(* that embeds another identifier, and path is the whole uri.              *)
(***************************************************************************)
C1_DnsSkylinkWins ==
    \A c \in Clients :
        (/\ Finished(c)
         /\ Len(SkylinkRecords(c)) = 1
         /\ IsIdentifier(ValueOf(SkylinkRecords(c)[1]))
         /\ Len(SponsorRecords(c)) <= 1)
        => /\ req[c].out.kind = "ok"
           /\ req[c].out.skylink = Some(CanonicalForm(ValueOf(SkylinkRecords(c)[1])))
           /\ req[c].out.path = req[c].uri

\* the record carries SkylinkA, the uri embeds SkylinkB and a path
C1_Witness ==
    \E c \in Clients :
        /\ Finished(c)
        /\ SkylinkRecords(c) = <<RecA>>
        /\ req[c].uri = Some(<<Slash>> \o SkylinkB \o FooBar)
        /\ req[c].out.kind = "ok"
        /\ req[c].out.skylink = Some(SkylinkA)
        /\ req[c].out.path = Some(<<Slash>> \o SkylinkB \o FooBar)

(***************************************************************************)
(* C2: with no skylink-convention record, at most one sponsor record and a *)
(* uri of the form /<identifier> or /<identifier>/<path>, resolve succeeds *)
(* with the uri's identifier (in its canonical form) as skylink and the    *)
(* uri's trailing path, or "/" when there is none, as path.                *)
(***************************************************************************)
C2_UriSkylinkAndPath ==
    \A c \in Clients :
        (/\ Finished(c)
         /\ Len(SkylinkRecords(c)) = 0
         /\ Len(SponsorRecords(c)) <= 1
         /\ UriIdentifierLen(req[c].uri) > 0)
        => /\ req[c].out.kind = "ok"
           /\ req[c].out.skylink = Some(CanonicalForm(UriIdentifier(req[c].uri)))
           /\ req[c].out.path = IF UriTrailing(req[c].uri) = <<>>
                                THEN Some(<<Slash>>)
                                ELSE Some(UriTrailing(req[c].uri))

\* an empty TXT set and a uri with a trailing path
C2_Witness ==
    \E c \in Clients :
        /\ Finished(c)
        /\ TxtRecords(c) = <<>>
        /\ req[c].uri = Some(<<Slash>> \o SkylinkB \o FooBar)
        /\ req[c].out.kind = "ok"
        /\ req[c].out.skylink = Some(SkylinkB)
        /\ req[c].out.path = Some(FooBar)

C4_MultipleSkylinks ==
    \A c \in Clients :
        (Finished(c) /\ Len(SkylinkRecords(c)) > 1)
        => /\ req[c].out.kind = "MultipleSkylinksError"
           /\ ~req[c].out.skylink.has
           /\ ~req[c].out.sponsor.has
           /\ ~req[c].out.path.has

\* two skylink records, two sponsor records and a uri that embeds an identifier
C4_Witness ==
    \E c \in Clients :
        /\ Finished(c)
        /\ Len(SkylinkRecords(c)) = 2
        /\ Len(SponsorRecords(c)) = 2
        /\ UriIdentifierLen(req[c].uri) > 0
        /\ req[c].out.kind = "MultipleSkylinksError"

(***************************************************************************)
(* C5: more than one sponsor-convention record with at most one            *)
(* skylink-convention record makes resolve fail with                       *)
(* MultipleSponsorKeyRecordsError and no result, for every uri, also when  *)
(* the skylink record is valid.                                            *)
(***************************************************************************)
C5_MultipleSponsors ==
    \A c \in Clients :
        (Finished(c) /\ Len(SponsorRecords(c)) > 1 /\ Len(SkylinkRecords(c)) <= 1)
        => /\ req[c].out.kind = "MultipleSponsorKeyRecordsError"
           /\ ~req[c].out.skylink.has
           /\ ~req[c].out.sponsor.has
           /\ ~req[c].out.path.has

\* a valid skylink record between two sponsor records
C5_Witness ==
    \E c \in Clients :
        /\ Finished(c)
        /\ TxtRecords(c) = <<RecSponsor1, RecA, RecSponsor2>>
        /\ UriIdentifierLen(req[c].uri) > 0
        /\ req[c].out.kind = "MultipleSponsorKeyRecordsError"

(***************************************************************************)
(* C6: with exactly one skylink-convention record and at most one sponsor  *)
(* record, resolve fails with InvalidSkylinkError whenever the value of    *)
(* the record is not exactly 46 base64 characters or 55 base32 characters, *)
(* a value that continues after such an identifier included.               *)
(***************************************************************************)
C6_InvalidSkylink ==
    \A c \in Clients :
        (/\ Finished(c)
         /\ Len(SkylinkRecords(c)) = 1
         /\ Len(SponsorRecords(c)) <= 1
         /\ ~InGrammar(ValueOf(SkylinkRecords(c)[1])))
        => req[c].out.kind = "InvalidSkylinkError"

(***************************************************************************)
(* C7: a successful result has a sponsor exactly when the TXT set has      *)
(* exactly one sponsor-convention record, and the sponsor is the record's  *)
(* text after its first "="; with one sponsor record, no skylink record    *)
(* and no uri, sponsor is the only field of the result.                    *)
(***************************************************************************)
C7_Sponsor ==
    \A c \in Clients :
        (Finished(c) /\ req[c].out.kind = "ok")
        => /\ req[c].out.sponsor.has <=> Len(SponsorRecords(c)) = 1
           /\ req[c].out.sponsor.has =>
                \E i \in 1..Len(SponsorRecords(c)[1]) :
                    /\ SponsorRecords(c)[1][i] = Equals
                    /\ \A j \in 1..(i - 1) : SponsorRecords(c)[1][j] # Equals
                    /\ req[c].out.sponsor.val
                         = SubSeq(SponsorRecords(c)[1], i + 1, Len(SponsorRecords(c)[1]))
           /\ (/\ Len(SponsorRecords(c)) = 1
               /\ Len(SkylinkRecords(c)) = 0
               /\ ~req[c].uri.has)
              => (~req[c].out.skylink.has /\ ~req[c].out.path.has)

\* sponsor only, sponsor beside a DNS skylink, sponsor beside a uri skylink
C7_WitnessSponsorOnly ==
    \E c \in Clients :
        /\ Finished(c)
        /\ TxtRecords(c) = <<RecOther, RecSponsor1>>
        /\ ~req[c].uri.has
        /\ req[c].out = [kind |-> "ok", message |-> "", skylink |-> None,
                         sponsor |-> Some(SubSeq(RecSponsor1, 20, 35)), path |-> None]

(***************************************************************************)
(* C8: a successful result has at least one of skylink, sponsor and path;  *)
(* when no record and no uri could populate any of them, resolve fails.    *)
(***************************************************************************)
C8_ResultPopulated ==
    \A c \in Clients :
        Finished(c) =>
            /\ req[c].out.kind = "ok"
               => (req[c].out.skylink.has \/ req[c].out.sponsor.has \/ req[c].out.path.has)
            /\ (/\ Len(SkylinkRecords(c)) = 0
                /\ Len(SponsorRecords(c)) = 0
                /\ ~req[c].uri.has)
               => req[c].out.kind # "ok"

\* nothing to populate the result with: resolve has failed
C8_Witness ==
    \E c \in Clients :
        /\ Finished(c)
        /\ TxtRecords(c) = <<RecOther>>
        /\ ~req[c].uri.has
        /\ req[c].out.kind = "NoSkynetDNSLinksFoundError"

\* the cache holds an entry for key that has not expired
FreshEntry(key) ==
    \E i \in 1..Len(dnsCache) :
        dnsCache[i].key = key /\ now - dnsCache[i].start <= CacheTTL

\* the record set cached for key
CachedValue(key) ==
    (CHOOSE e \in {dnsCache[i] : i \in 1..Len(dnsCache)} : e.key = key).value

\* client c's call of resolve starts in this step
Starts(c) == req[c].pc = "idle" /\ req'[c].pc # "idle"

(***************************************************************************)
(* C9: a lookup of a key that starts while the key's entry is present and  *)
(* not expired returns the cached record set and issues no upstream query. *)
(***************************************************************************)
C9_CacheHit ==
    [][\A c \in Clients :
         (Starts(c) /\ FreshEntry(Lookup(req'[c].domain)))
         => /\ req'[c].pc = "done"
            /\ ~req'[c].queried
            /\ req'[c].addresses = Some(CachedValue(Lookup(req'[c].domain)))
            /\ queries' = queries]_vars

\* the second of two lookups of a key has been answered from the cache, and
\* one upstream query has been issued for the key in total
C9_Witness ==
    \E c \in Clients :
        /\ req[c].pc = "done"
        /\ ~req[c].queried
        /\ req[c].addresses = Some(<<<<RecA>>, <<RecSponsor1>>>>)
        /\ req[c].out.kind = "ok"
        /\ queries[Lookup(req[c].domain)] = 1
        /\ \A d \in Clients \ {c} : req[d].pc = "idle"

(***************************************************************************)
(* C10: a lookup whose upstream query fails leaves the cache unchanged;    *)
(* the cache holds an entry for a key only if an upstream query for the    *)
(* key has succeeded; a lookup of a key with nothing cached for it issues  *)
(* a new upstream query, also after a failed lookup of the key.            *)
(***************************************************************************)
C10_FailuresNotCached ==
    [][/\ \A c \in Clients :
            (req[c].pc = "await" /\ req'[c].pc = "done"
             /\ req'[c].out.kind = "ResolutionError")
            => dnsCache' = dnsCache
       /\ \A i \in 1..Len(dnsCache') : dnsCache'[i].key \in succeeded'
       /\ \A c \in Clients :
            (Starts(c) /\ \A i \in 1..Len(dnsCache) :
                              dnsCache[i].key # Lookup(req'[c].domain))
            => /\ req'[c].pc = "await"
               /\ req'[c].queried
               /\ queries'[Lookup(req'[c].domain)]
                    = queries[Lookup(req'[c].domain)] + 1]_vars

\* the first lookup of a key has failed and the second one, with nothing
\* cached for the key, has issued the second upstream query
C10_Witness ==
    \E c \in Clients :
        /\ req[c].pc = "await"
        /\ queries[Lookup(req[c].domain)] = 2
        /\ Lookup(req[c].domain) \notin succeeded
        /\ dnsCache = <<>>
        /\ \A d \in Clients \ {c} :
             /\ req[d].pc = "done"
             /\ req[d].domain = req[c].domain
             /\ req[d].out.kind = "ResolutionError"

\* client c's call of resolve has ended after a rejected upstream query
Failed(c) == req[c].pc = "done" /\ req[c].queried /\ ~req[c].addresses.has

\* the key resolve looks up for client c's domain
KeyOf(c) == "_dnslink." \o req[c].domain

(***************************************************************************)
(* C11: every upstream failure surfaces as a ResolutionError without a     *)
(* result, whose message names the lookup key and is chosen by the code of *)
(* the failure: the not-found message for ENOTFOUND, the no-data message   *)
(* for ENODATA, and for every other failure the generic message that ends  *)
(* with the description of the failure.                                    *)
(***************************************************************************)
C11_ResolutionErrorMessage ==
    \A c \in Clients :
        Failed(c) =>
            /\ req[c].out.kind = "ResolutionError"
            /\ ~req[c].out.skylink.has /\ ~req[c].out.sponsor.has /\ ~req[c].out.path.has
            /\ req[c].error.code = "ENOTFOUND"
               => req[c].out.message = "ENOTFOUND: " \o KeyOf(c) \o " TXT record doesn't exist"
            /\ req[c].error.code = "ENODATA"
               => req[c].out.message = "ENODATA: " \o KeyOf(c) \o " dns lookup returned no data"
            /\ req[c].error.code \notin {"ENOTFOUND", "ENODATA"}
               => req[c].out.message
                    = "Failed to fetch " \o KeyOf(c) \o " TXT record: " \o req[c].error.message

\* a failure with another code has surfaced with its description
C11_Witness ==
    \E c \in Clients :
        /\ Failed(c)
        /\ req[c].error.code = "ESERVFAIL"
        /\ req[c].out.kind = "ResolutionError"
        /\ req[c].out.message
             = "Failed to fetch _dnslink.skynetlabs.com TXT record: queryTxt ESERVFAIL"

\* some client's call of resolve starts in this step
SomeStart == \E c \in Clients : Starts(c)

(***************************************************************************)
(* C12: a lookup that starts on a cache hit issues no upstream query, a    *)
(* lookup that starts on a cache miss issues exactly one, and no other     *)
(* step issues any: neither the success nor the failure of the query is    *)
(* followed by another query of the same lookup.                           *)
(***************************************************************************)
C12_OneQueryPerMiss ==
    [][/\ \A c \in Clients :
            Starts(c) =>
                queries' = IF FreshEntry(Lookup(req'[c].domain))
                           THEN queries
                           ELSE [queries EXCEPT ![Lookup(req'[c].domain)] = @ + 1]
       /\ ~SomeStart => queries' = queries
       /\ \A c \in Clients :
            (req[c].pc = "await" /\ req'[c].pc # "await") => req'[c].pc = "done"]_vars

\* a lookup has missed, its only query has failed and the lookup has ended
C12_Witness ==
    \E c \in Clients :
        /\ Failed(c)
        /\ queries[KeyOf(c)] = 1
        /\ \A k \in Lookups \ {KeyOf(c)} : queries[k] = 0
        /\ \A d \in Clients \ {c} : req[d].pc = "idle"

\* the calls of resolve that have issued a query for key and not yet returned
Queried(key) == {c \in Clients : req[c].queried /\ Lookup(req[c].domain) = key}

(***************************************************************************)
(* C13: a lookup that starts while other lookups of the same key await     *)
(* their queries and nothing is cached for the key issues a query of its   *)
(* own, so N such lookups issue N queries; the end of one lookup's query   *)
(* ends that lookup only, each caller getting the outcome of its own.      *)
(***************************************************************************)
C13_NoDeduplication ==
    [][/\ \A c \in Clients :
            (/\ Starts(c)
             /\ \A i \in 1..Len(dnsCache) : dnsCache[i].key # Lookup(req'[c].domain)
             /\ \E d \in Clients \ {c} :
                    req[d].pc = "await" /\ req[d].domain = req'[c].domain)
            => /\ req'[c].pc = "await"
               /\ queries'[Lookup(req'[c].domain)] = queries[Lookup(req'[c].domain)] + 1
       /\ \A k \in Lookups : Cardinality(Queried(k)') <= queries'[k]
       /\ \A c \in Clients :
            (req[c].pc = "await" /\ req'[c].pc = "done")
            => \A d \in Clients \ {c} : req'[d] = req[d]]_vars

\* two lookups of one key have each issued a query; one has ended with the
\* answer of its query, the other with the failure of its own
C13_Witness ==
    \E c, d \in Clients :
        /\ c # d
        /\ req[c].domain = req[d].domain
        /\ req[c].pc = "done" /\ req[c].queried /\ req[c].out.kind = "ok"
        /\ req[d].pc = "done" /\ req[d].queried /\ req[d].out.kind = "ResolutionError"
        /\ queries[KeyOf(c)] = 2

\* the cached keys, the least recently used first
KeysOf(cache) == [i \in 1..Len(cache) |-> cache[i].key]
\* a sequence of keys without key
Without(keys, key) == SelectSeq(keys, LAMBDA k : k # key)
\* key is cached
Cached(cache, key) == \E i \in 1..Len(cache) : cache[i].key = key
\* client c's upstream query succeeds in this step and its answer is stored
Stores(c) == req[c].pc = "await" /\ req'[c].pc = "done" /\ req'[c].addresses.has
\* client c's call is answered from the cache in this step
Hits(c) == req[c].pc = "idle" /\ req'[c].pc = "done"

(***************************************************************************)
(* C14: the cache never holds more entries than its maximum.  A use of a   *)
(* key (its record set is stored, or returned by a cache hit) makes it the *)
(* most recently used and keeps the order of the others; only the store of *)
(* a new key into a full cache evicts, and it evicts the least recently    *)
(* used entry, expired or not; no other step changes the cached keys.      *)
(***************************************************************************)
C14_LruEviction ==
    [][/\ Len(dnsCache') <= CacheMax
       /\ \A c \in Clients :
            Stores(c) =>
                LET key == Lookup(req[c].domain)
                    old == KeysOf(dnsCache)
                IN  KeysOf(dnsCache')
                      = IF Cached(dnsCache, key) THEN Append(Without(old, key), key)
                        ELSE IF Len(old) < CacheMax THEN Append(old, key)
                        ELSE Append(Tail(old), key)
       /\ \A c \in Clients :
            Hits(c) =>
                KeysOf(dnsCache')
                  = Append(Without(KeysOf(dnsCache), Lookup(req'[c].domain)),
                           Lookup(req'[c].domain))
       /\ (\A c \in Clients : ~Stores(c) /\ ~Hits(c)) => dnsCache' = dnsCache]_vars

\* the store of a new key into the full cache has evicted the entry of
\* another key, stored within the ttl before, and has kept the oldest entry
C14_Witness ==
    /\ Len(dnsCache) = CacheMax
    /\ dnsCache[1].key = Lookup(DomainNames[1])
    /\ dnsCache[1].start = 0
    /\ dnsCache[Len(dnsCache)].key = Lookup(DomainNames[CacheMax + 1])
    /\ dnsCache[Len(dnsCache)].start = CacheTTL
    /\ now = CacheTTL
    /\ Lookup(DomainNames[2]) \in succeeded
    /\ ~Cached(dnsCache, Lookup(DomainNames[2]))
    /\ \A k \in Lookups : queries[k] <= 1

\* the entry cached for key
EntryOf(cache, key) ==
    CHOOSE e \in {cache[i] : i \in 1..Len(cache)} : e.key = key

(***************************************************************************)
(* C15: an entry carries the time of the upstream success that stored it,  *)
(* and only a later store of the key changes it; a lookup is answered from *)
(* the cache only when it starts no more than the ttl after that time, and *)
(* the hit leaves the time as it was; a lookup that starts later than that *)
(* issues a new upstream query.                                            *)
(***************************************************************************)
C15_TtlExpiry ==
    [][/\ \A c \in Clients :
            Stores(c) => EntryOf(dnsCache', Lookup(req[c].domain)).start = now
       /\ \A k \in Lookups :
            (/\ Cached(dnsCache, k) /\ Cached(dnsCache', k)
             /\ EntryOf(dnsCache', k).start # EntryOf(dnsCache, k).start)
            => \E c \in Clients : Stores(c) /\ Lookup(req[c].domain) = k
       /\ \A c \in Clients :
            Hits(c) =>
                LET key == Lookup(req'[c].domain)
                IN  /\ Cached(dnsCache, key)
                    /\ now - EntryOf(dnsCache, key).start <= CacheTTL
                    /\ req'[c].addresses = Some(EntryOf(dnsCache, key).value)
                    /\ EntryOf(dnsCache', key) = EntryOf(dnsCache, key)
       /\ \A c \in Clients :
            (/\ Starts(c)
             /\ Cached(dnsCache, Lookup(req'[c].domain))
             /\ now - EntryOf(dnsCache, Lookup(req'[c].domain)).start > CacheTTL)
            => /\ req'[c].pc = "await"
               /\ queries'[Lookup(req'[c].domain)]
                    = queries[Lookup(req'[c].domain)] + 1]_vars

\* the entry of a key has expired and a lookup of the key has issued the
\* second upstream query for it
C15_Witness ==
    \E c \in Clients :
        /\ req[c].pc = "await"
        /\ Cached(dnsCache, KeyOf(c))
        /\ now - EntryOf(dnsCache, KeyOf(c)).start > CacheTTL
        /\ queries[KeyOf(c)] = 2
        /\ \A d \in Clients \ {c} : req[d].pc = "idle"

\* the names the tests of validateRequest list as invalid
InvalidDomains == {NameXyz, NameDotCom, NameDoubleDash}

\* client c's request has a name that is no valid domain name: one of the
\* names listed as invalid, or another name the validity check turns down
InvalidName(name) == name \in InvalidDomains \/ ~isValidDomain(name)

JsonBody(c) ==
    [skylink |-> req[c].out.skylink, sponsor |-> req[c].out.sponsor,
     path |-> IF req[c].route = 1 THEN None ELSE req[c].out.path]

(***************************************************************************)
(* C17: a request to either route is answered exactly once, when its       *)
(* handler ends: with status 200 and the result as JSON body when          *)
(* validation and resolve have succeeded, and with status 400, content     *)
(* type text/plain; charset=utf-8 and the error's message as body when     *)
(* either has failed, whatever the kind of the error.                      *)
(***************************************************************************)
C17_OneResponse ==
    \A c \in Clients :
        /\ req[c].res.sent <= 1
        /\ req[c].pc \in {"await", "done"} => req[c].res.sent = 0
        /\ (req[c].pc = "responded" /\ req[c].route \in Routes)
           => /\ req[c].res.sent = 1
              /\ IF isValidDomain(req[c].name) /\ req[c].addresses.has
                    /\ req[c].out.kind = "ok"
                 THEN /\ req[c].res.status = 200
                      /\ req[c].res.contentType = "application/json; charset=utf-8"
                      /\ req[c].res.json = JsonBody(c)
                 ELSE /\ req[c].out.kind \notin {"ok", ""}
                      /\ req[c].res.status = 400
                      /\ req[c].res.contentType = "text/plain; charset=utf-8"
                      /\ req[c].res.text = req[c].out.message
                      /\ req[c].res.json = NoJson

\* a request whose resolve has failed with an error of none of the resolver's
\* kinds has been answered with status 400 and the error's message
C17_Witness ==
    \E c \in Clients :
        /\ req[c].pc = "responded"
        /\ req[c].route = 2
        /\ req[c].out.kind = "Error"
        /\ req[c].res = [sent |-> 1, status |-> 400,
                         contentType |-> "text/plain; charset=utf-8",
                         text |-> "Invalid character found: Z", json |-> NoJson]

(***************************************************************************)
(* C18: the skylink of every successful result is in the canonical form,   *)
(* 46 characters of the URL-safe base64 alphabet: an identifier in the     *)
(* base32 form, taken from the single dnslink record or else from the uri, *)
(* is returned as the base64 text of the same bytes, and an identifier in  *)
(* the base64 form is returned as it is.                                   *)
(***************************************************************************)
C18_CanonicalSkylink ==
    \A c \in Clients :
        (Finished(c) /\ req[c].out.kind = "ok" /\ req[c].out.skylink.has)
        => /\ IsBase64Form(req[c].out.skylink.val)
           /\ Len(SkylinkRecords(c)) = 1
              => LET id == ValueOf(SkylinkRecords(c)[1])
                 IN  /\ IsBase32Form(id) => req[c].out.skylink.val = CanonicalForm(id)
                     /\ IsBase64Form(id) => req[c].out.skylink.val = id
           /\ (Len(SkylinkRecords(c)) = 0 /\ UriIdentifierLen(req[c].uri) > 0)
              => LET id == UriIdentifier(req[c].uri)
                 IN  /\ IsBase32Form(id) => req[c].out.skylink.val = CanonicalForm(id)
                     /\ IsBase64Form(id) => req[c].out.skylink.val = id

\* the uri carries an identifier in the base32 form, the result its base64 form
C18_Witness ==
    \E c \in Clients :
        /\ Finished(c)
        /\ Len(SkylinkRecords(c)) = 0
        /\ req[c].uri = Some(<<Slash>> \o SkylinkM32)
        /\ req[c].out.kind = "ok"
        /\ req[c].out.skylink = Some(SkylinkM64)


\* the error classes of the signature of resolve
DeclaredErrors ==
    {"ResolutionError", "NoSkynetDNSLinksFoundError", "MultipleSkylinksError",
     "InvalidSkylinkError", "MultipleSponsorKeyRecordsError"}

(***************************************************************************)
(* C19: a call of resolve that has ended has returned a result or has     *)
(* failed with one of the five declared error classes, whatever the       *)
(* domain, the uri and the upstream outcome; no other failure escapes,    *)
(* not even for an identifier of 55 characters of a-z0-9 that the base32  *)
(* conversion is applied to.                                              *)
(***************************************************************************)
C19_OnlyDeclaredErrors ==
    \A c \in Clients :
        req[c].pc = "done" => req[c].out.kind \in {"ok"} \cup DeclaredErrors


\* the clauses the log line is to carry: one for each of skylink and sponsor
\* that the result has
ResultClauses(result) ==
    (IF result.skylink.has THEN <<"skylink: " \o Text(result.skylink.val)>> ELSE <<>>)
    \o (IF result.sponsor.has THEN <<"sponsor: " \o Text(result.sponsor.val)>> ELSE <<>>)

(***************************************************************************)
(* C20: the line a resolution logs for its result is                      *)
(* "<domain> => skylink: <value> | sponsor: <value>" without the skylink  *)
(* clause when no skylink was resolved and without the sponsor clause     *)
(* when no sponsor was resolved, so that a resolution with a sponsor only *)
(* logs "<domain> => sponsor: <value>".                                   *)
(***************************************************************************)
C20_LogLine ==
    \A c \in Clients :
        (Finished(c) /\ req[c].out.kind = "ok")
        => req[c].log = req[c].domain \o " => " \o join(ResultClauses(req[c].out), " | ")


(***************************************************************************)
(* C21: the uri match of resolve finds an identifier if and only if the    *)
(* uri is /<identifier> or /<identifier>/<path> with an identifier of      *)
(* exactly 55 lowercase base32 digits or exactly 46 characters of the      *)
(* URL-safe base64 alphabet; a uri whose first segment is longer or has    *)
(* other characters gives none, and by itself causes no error: with one    *)
(* sponsor record and no skylink record the call returns a result without  *)
(* skylink.                                                                *)
(***************************************************************************)
C21_UriIdentifier ==
    \A c \in Clients :
        Finished(c)
        => /\ UriYieldsIdentifier(req[c].uri) <=> UriIdentifierLen(req[c].uri) > 0
           /\ (/\ UriIdentifierLen(req[c].uri) = 0
               /\ Len(SkylinkRecords(c)) = 0
               /\ Len(SponsorRecords(c)) = 1)
              => req[c].out.kind = "ok" /\ ~req[c].out.skylink.has


\* some ways of grouping the fragments of records into record groups: each
\* its own group, all in one group, cut in two at every place, and groups
\* without fragments before, between and behind
Regroupings(records) ==
    {OwnGroups(records), <<records>>,
     <<<<>>>> \o OwnGroups(records) \o <<<<>>, <<>>>>}
    \cup {<<SubSeq(records, 1, k), <<>>, SubSeq(records, k + 1, Len(records))>> :
            k \in 0..Len(records)}

(***************************************************************************)
(* C22: the outcome of resolve depends on the sequence of the TXT          *)
(* fragments only: a finished call has the result, or the error, that      *)
(* resolve gives for every other grouping of the same fragments into       *)
(* record groups, groups without fragments included.                       *)
(***************************************************************************)
C22_GroupingIrrelevant ==
    \A c \in Clients :
        Finished(c)
        => \A groups \in Regroupings(TxtRecords(c)) :
              ResolveRecords(KeyOf(c), groups, req[c].uri) = req[c].out

\* an answer with the skylink record and the sponsor record in one group
C22_Witness ==
    \E c \in Clients :
        /\ Finished(c)
        /\ req[c].addresses.val = <<<<RecA, RecSponsor1>>>>
        /\ req[c].out.kind = "ok"
        /\ req[c].out.skylink = Some(SkylinkA)
        /\ req[c].out.sponsor.has


\* the entries of the keys other than key, in the order of use
OtherEntries(cache, key) == SelectSeq(cache, LAMBDA e : e.key # key)
\* client c's call of resolve takes a step: it starts, is answered from the
\* cache, or its upstream query settles
ResolveStep(c) ==
    /\ req[c].pc \in {"idle", "await"}
    /\ req'[c].pc \in {"await", "done"}
    /\ req'[c] # req[c]
\* in a step of client c's call for key: only key is queried, the call is
\* answered from key's entry, and a rejected query ends it with a
\* ResolutionError and no result
OwnKeyOnly(c, key) ==
    /\ \A k \in Lookups \ {key} : queries'[k] = queries[k]
    /\ Hits(c) => /\ Cached(dnsCache, key)
                  /\ req'[c].addresses = Some(EntryOf(dnsCache, key).value)
    /\ (req[c].pc = "idle" /\ req'[c].pc = "await") => queries'[key] = queries[key] + 1
    /\ (req'[c].pc = "done" /\ ~req'[c].addresses.has)
       => /\ req'[c].out.kind = "ResolutionError"
          /\ ~req'[c].out.skylink.has
          /\ ~req'[c].out.sponsor.has
          /\ ~req'[c].out.path.has
          /\ dnsCache' = dnsCache

(***************************************************************************)
(* C23 as stated: a step of resolve(domain, uri) queries the key           *)
(* _dnslink.<domain> only and is answered from its entry only, leaves the  *)
(* cache entries of every other key as they are, and a ResolutionError of  *)
(* the lookup ends the call without a result.                              *)
(***************************************************************************)
C23_OtherKeysUnchanged ==
    [][\A c \in Clients :
         ResolveStep(c) =>
            LET key == "_dnslink." \o req'[c].domain
            IN  /\ OwnKeyOnly(c, key)
                /\ OtherEntries(dnsCache', key) = OtherEntries(dnsCache, key)]_vars

(***************************************************************************)
(* C23 amended: as above, but the entries of the other keys stay as they   *)
(* are except for one case: when the answer of a successful query is       *)
(* stored for a key that is not cached and the cache is full, the least    *)
(* recently used entry, of another key, is evicted.                        *)
(***************************************************************************)
C23_OtherKeysUnchangedButEviction ==
    [][\A c \in Clients :
         ResolveStep(c) =>
            LET key == "_dnslink." \o req'[c].domain
            IN  /\ OwnKeyOnly(c, key)
                /\ OtherEntries(dnsCache', key)
                     = IF Stores(c) /\ ~Cached(dnsCache, key) /\ Len(dnsCache) = CacheMax
                       THEN Tail(dnsCache)
                       ELSE OtherEntries(dnsCache, key)]_vars

\* a call for one key has failed with a ResolutionError while the entry of
\* another key is cached, and only the first key has been queried since
C23_Witness ==
    \E c \in Clients :
        /\ Failed(c)
        /\ req[c].out.kind = "ResolutionError"
        /\ KeyOf(c) = Lookup(DomainNames[2])
        /\ queries[KeyOf(c)] = 1
        /\ Len(dnsCache) = 1
        /\ dnsCache[1].key = Lookup(DomainNames[1])
        /\ queries[Lookup(DomainNames[1])] = 1


\* the TXT set of client c's call has a skylink record whose value is no
\* valid identifier
HasInvalidSkylink(c) ==
    \E i \in 1..Len(SkylinkRecords(c)) : ~IsIdentifier(ValueOf(SkylinkRecords(c)[i]))

(***************************************************************************)
(* C24: of the error conditions that hold for a TXT set resolve reports    *)
(* the first in a fixed order: more than one skylink record gives          *)
(* MultipleSkylinksError whatever else holds; otherwise more than one      *)
(* sponsor record gives MultipleSponsorKeyRecordsError, also next to an    *)
(* invalid skylink record; otherwise no record of either convention and no *)
(* identifier in the uri gives NoSkynetDNSLinksFoundError; and             *)
(* InvalidSkylinkError is reported only when none of these holds and the   *)
(* single skylink record is invalid.                                       *)
(***************************************************************************)
C24_ErrorPriority ==
    \A c \in Clients :
        Finished(c) =>
            LET skylinks == Len(SkylinkRecords(c))
                sponsors == Len(SponsorRecords(c))
                kind == req[c].out.kind
            IN  /\ skylinks > 1 => kind = "MultipleSkylinksError"
                /\ (skylinks <= 1 /\ sponsors > 1)
                   => kind = "MultipleSponsorKeyRecordsError"
                /\ (/\ skylinks = 0 /\ sponsors = 0
                    /\ ~UriYieldsIdentifier(req[c].uri))
                   => kind = "NoSkynetDNSLinksFoundError"
                /\ kind = "InvalidSkylinkError"
                   => skylinks = 1 /\ sponsors <= 1 /\ HasInvalidSkylink(c)

\* one invalid skylink record together with two sponsor records
C24_Witness ==
    \E c \in Clients :
        /\ Finished(c)
        /\ Len(SkylinkRecords(c)) = 1
        /\ HasInvalidSkylink(c)
        /\ Len(SponsorRecords(c)) = 2
        /\ req[c].out.kind = "MultipleSponsorKeyRecordsError"


(***************************************************************************)
(* C25: with exactly one skylink-convention record whose value is no valid *)
(* identifier (and no more than one sponsor record, which would be         *)
(* reported first) resolve fails with InvalidSkylinkError for every uri,   *)
(* also one that embeds a valid identifier: the identifier of the uri is   *)
(* never used in place of the record's.                                    *)
(***************************************************************************)
C25_NoFallbackToUri ==
    \A c \in Clients :
        (/\ Finished(c)
         /\ Len(SkylinkRecords(c)) = 1
         /\ Len(SponsorRecords(c)) <= 1
         /\ ~IsIdentifier(ValueOf(SkylinkRecords(c)[1])))
        => /\ req[c].out.kind = "InvalidSkylinkError"
           /\ ~req[c].out.skylink.has
           /\ ~req[c].out.path.has


\* the records of either convention among records, in order
OfConvention(records) ==
    SelectSeq(records, LAMBDA r : SkylinkConvention(r) \/ SponsorConvention(r))

\* records of neither convention: another namespace, the bare prefix, a
\* sponsor key with a hyphen
NeitherRecords == {RecOther, dnslinkPrefix, sponsorPrefix \o <<97, 45, 98>>}

(***************************************************************************)
(* C26: records of neither convention have no influence: a finished call   *)
(* has the outcome resolve gives for the TXT set without such records, and *)
(* the outcome it gives when such a record is added in front of or between *)
(* the records, for every uri; and no record is counted as a               *)
(* skylink record and as a sponsor record.                                 *)
(***************************************************************************)
C26_OtherRecordsIgnored ==
    \A c \in Clients :
        Finished(c) =>
            LET records == TxtRecords(c)
                Outcome(r) == ResolveRecords(KeyOf(c), OwnGroups(r), req[c].uri)
            IN  /\ Outcome(OfConvention(records)) = req[c].out
                /\ \A other \in NeitherRecords, k \in {0, Len(records) \div 2} :
                      Outcome(SubSeq(records, 1, k) \o <<other>>
                              \o SubSeq(records, k + 1, Len(records))) = req[c].out
                /\ \A i \in 1..Len(records) :
                      ~(dnslinkRegExp(records[i]) /\ sponsorRegExp(records[i]))

\* records of another namespace around a skylink and a sponsor record
C26_Witness ==
    \E c \in Clients :
        /\ Finished(c)
        /\ TxtRecords(c) = <<RecOther, RecA, RecOther, RecSponsor1>>
        /\ req[c].out.kind = "ok"
        /\ req[c].out.skylink = Some(SkylinkA)
        /\ req[c].out.sponsor.has


\* the errors resolve throws after a successful lookup
RecordErrors ==
    {"NoSkynetDNSLinksFoundError", "MultipleSkylinksError",
     "MultipleSponsorKeyRecordsError", "InvalidSkylinkError"}
\* client c's call has ended with one of them after the only upstream query
\* issued for its key so far
FailedOnRecords(c) ==
    /\ Finished(c)
    /\ req[c].queried
    /\ req[c].out.kind \in RecordErrors
    /\ queries[KeyOf(c)] = 1

(***************************************************************************)
(* C27: when the upstream query of a call succeeds and resolve then fails  *)
(* on the records, the fetched record set, an empty one included, is       *)
(* stored in the cache at that time and stays there; a second call for the *)
(* same domain and uri that starts within the ttl of the entry issues no   *)
(* upstream query and fails with the same error.                           *)
(***************************************************************************)
C27_FailedResolveCached ==
    [][\A c \in Clients :
         /\ (Stores(c) /\ req'[c].out.kind \in RecordErrors)
            => /\ Cached(dnsCache', KeyOf(c))
               /\ EntryOf(dnsCache', KeyOf(c))
                    = [key |-> KeyOf(c), value |-> req'[c].addresses.val, start |-> now]
         /\ FailedOnRecords(c)
            => /\ Cached(dnsCache, KeyOf(c))
               /\ EntryOf(dnsCache, KeyOf(c)).value = req[c].addresses.val
         /\ \A d \in Clients \ {c} :
              (/\ FailedOnRecords(c)
               /\ Starts(d)
               /\ req'[d].domain = req[c].domain
               /\ req'[d].uri = req[c].uri
               /\ now - EntryOf(dnsCache, KeyOf(c)).start <= CacheTTL)
              => /\ queries' = queries
                 /\ req'[d].pc = "done"
                 /\ ~req'[d].queried
                 /\ req'[d].out = req[c].out]_vars

\* the second call for a domain whose answer has two skylink records has
\* failed like the first, from the cache and after time has passed
C27_Witness ==
    \E c, d \in Clients :
        /\ FailedOnRecords(c)
        /\ req[c].out.kind = "MultipleSkylinksError"
        /\ Finished(d)
        /\ ~req[d].queried
        /\ req[d].domain = req[c].domain
        /\ req[d].out.kind = "MultipleSkylinksError"
        /\ now > EntryOf(dnsCache, KeyOf(c)).start


\* two places of the TXT set of client c's call hold records that satisfy
\* Convention, equal or not, with a valid value or not
TwoRecordsOf(c, Convention(_)) ==
    \E i, j \in 1..Len(TxtRecords(c)) :
        i # j /\ Convention(TxtRecords(c)[i]) /\ Convention(TxtRecords(c)[j])

(***************************************************************************)
(* C28: the two counts are counts of records, not of values: whenever two  *)
(* records of the TXT set follow the skylink convention, be they the same  *)
(* text twice or one with a valid and one with an invalid identifier,      *)
(* resolve fails with MultipleSkylinksError, and otherwise two records of  *)
(* the sponsor convention, the same key twice included, make it fail with  *)
(* MultipleSponsorKeyRecordsError.                                         *)
(***************************************************************************)
C28_CountsWithMultiplicity ==
    \A c \in Clients :
        Finished(c) =>
            /\ TwoRecordsOf(c, SkylinkConvention)
               => req[c].out.kind = "MultipleSkylinksError"
            /\ (~TwoRecordsOf(c, SkylinkConvention) /\ TwoRecordsOf(c, SponsorConvention))
               => req[c].out.kind = "MultipleSponsorKeyRecordsError"

\* the answer is the same valid skylink record twice
C28_Witness ==
    \E c \in Clients :
        /\ Finished(c)
        /\ TxtRecords(c) = <<RecA, RecA>>
        /\ req[c].out.kind = "MultipleSkylinksError"


\* client c's call has ended after its own upstream query succeeded
Completed(c) == Finished(c) /\ req[c].queried

(***************************************************************************)
(* C29: every successful upstream query stores its record set when it      *)
(* completes, with the time of that moment.  When the queries of two       *)
(* concurrent lookups of a key, both started on a miss, succeed one after  *)
(* the other, the later completion replaces the entry the earlier one      *)
(* stored, also when the query that completes later was issued first, and  *)
(* the entry's time starts anew; when both have completed the entry is the *)
(* record set of the last completion.                                      *)
(***************************************************************************)
C29_LastCompletionWins ==
    [][\A c \in Clients :
         Stores(c) =>
            /\ EntryOf(dnsCache', KeyOf(c))
                 = [key |-> KeyOf(c), value |-> req'[c].addresses.val, start |-> now]
            /\ \A d \in Clients \ {c} :
                 (Completed(d) /\ req[d].domain = req[c].domain)
                 => /\ EntryOf(dnsCache, KeyOf(c)).value = req[d].addresses.val
                    /\ EntryOf(dnsCache, KeyOf(c)).start <= now
                    /\ Len(dnsCache') = Len(dnsCache)]_vars

\* the query issued first has completed last, after time has passed, with
\* another record set than the query issued second: the entry is its
\* record set and carries its time
C29_Witness ==
    /\ Completed(1) /\ Completed(2)
    /\ req[1].domain = req[2].domain
    /\ queries[KeyOf(1)] = 2
    /\ req[1].addresses.val = <<<<RecM32>>>>
    /\ req[2].addresses.val = <<<<RecA>>>>
    /\ EntryOf(dnsCache, KeyOf(1)) = [key |-> KeyOf(1), value |-> <<<<RecM32>>>>, start |-> now]
    /\ now = CacheTTL


\* records in the order given by the permutation p of its places
Permuted(records, p) == [i \in 1..Len(records) |-> records[p[i]]]

(***************************************************************************)
(* C30: the order of the TXT records is without influence: a finished call *)
(* has, for its uri, the error, or the skylink, sponsor and path, that     *)
(* resolve gives for the same records in every other order.                *)
(***************************************************************************)
C30_OrderIrrelevant ==
    \A c \in Clients :
        Finished(c) =>
            \A p \in Permutations(1..Len(TxtRecords(c))) :
                LET other == ResolveRecords(KeyOf(c), OwnGroups(Permuted(TxtRecords(c), p)),
                                            req[c].uri)
                IN  /\ other.kind = req[c].out.kind
                    /\ other.skylink = req[c].out.skylink
                    /\ other.sponsor = req[c].out.sponsor
                    /\ other.path = req[c].out.path

\* the sponsor record comes before the skylink record, a record of another
\* namespace between them
C30_Witness ==
    \E c \in Clients :
        /\ Finished(c)
        /\ TxtRecords(c) = <<RecSponsor1, RecOther, RecA>>
        /\ req[c].out.kind = "ok"
        /\ req[c].out.skylink = Some(SkylinkA)
        /\ req[c].out.sponsor.has

=============================================================================
